---- MODULE Spec2Model ----
(***************************************************************************)
(* The resilient content-acquisition pipeline of the news collector:       *)
(*   - CircuitBreaker and retry_with_backoff   (src/src/utils/retry_utils) *)
(*   - FullArticleScraper.scrape_full_article  (src/src/scrapers)          *)
(*   - the URL resolvers and decoders          (src/src/scrapers,          *)
(*                                              src/src/utils/utils)       *)
(*   - collect_full_articles                   (src/src/scrapers)          *)
(* The specifications share the module's variables; each runs one          *)
(* component and leaves the others as constructed:                         *)
(*   SpecCB            one breaker driven by one caller                    *)
(*   SpecRetry         the retry wrapper around one operation              *)
(*   SpecRetryGuarded  the retry wrapper given a circuit_breaker           *)
(*   SpecScrape        acquisitions: decode, the three tiers, the record   *)
(*   SpecFetch         one tier call and the fetches its retries make      *)
(*   SpecDecode        google_news_url_decoder.decode_google_news_url      *)
(*   SpecResolve       url_resolver.resolve_google_news_url                *)
(*   SpecSelenium      resolve_google_news_url_with_selenium, repeatedly   *)
(*   SpecBatch         collect_full_articles over a list of articles       *)
(*   SpecConc          one breaker shared by threads                       *)
(***************************************************************************)
EXTENDS Integers, Sequences, FiniteSets, TLC

VARIABLES
    \* ---- CircuitBreaker driven by one caller (SpecCB)
    cb,           \* the CircuitBreaker object: its five attributes
    now,          \* time.time()
    lastCall,     \* what the most recent call() saw and did
    nCalls,       \* calls made so far
    nFailing,     \* ... of which the operation was one that raises
    nInvoked,     \* ... of which the operation was actually invoked
    nReraised,    \* ... of which call() re-raised the operation's exception
    trialFailed,  \* time of the latest failed HALF_OPEN trial, or NoTime
    \* ---- retry_with_backoff around one operation (SpecRetry)
    policy,       \* the decorator's arguments
    script,       \* the operation: how often it fails, and what it does then
    attempt,      \* the loop variable of the wrapper
    rpc,          \* "running", "returned" or "raised"
    invocations,  \* times the operation was invoked
    errs,         \* the exceptions the operation raised and the wrapper caught
    sleeps,       \* the delays passed to time.sleep, in milliseconds
    rResult,      \* what the wrapper returned
    rRaised,      \* what the wrapper raised
    \* ---- FullArticleScraper.scrape_full_article (SpecScrape)
    spc,          \* where scrape_full_article is
    article_url,  \* its argument
    real_url,     \* the resolved URL
    article_data, \* the record being built, or None
    result,       \* how it ended: what it returned or raised
    handled,      \* the exception its handlers answered with None
    scraper_cb,   \* ArticleScraper.circuit_breaker
    selenium_circuit_breaker,
    trail,        \* the tiers tried in this acquisition, with their outcomes
    browser,      \* whether this acquisition launched the browser
    decoded_by,   \* the strategy that gave real_url
    nAcq,         \* acquisitions started
    \* ---- google_news_url_decoder.decode_google_news_url (SpecDecode)
    dpc,          \* where decode_google_news_url is
    source_url,   \* its argument
    plain,        \* the plaintext its last path segment encodes
    article_id,   \* the id sent to batchexecute
    dResult,      \* what it returned
    answer,       \* what batchexecute answered
    \* ---- collect_full_articles (SpecBatch)
    bpc,          \* where collect_full_articles is
    articles,     \* its list of articles
    given,        \* the list as it was given
    query_valid,  \* whether validate_string accepts the query
    SCRAPE_FULL_ARTICLES,
    successful_scrapes,
    failed_scrapes,
    attempted,    \* the serial numbers of the articles the loop took
    acquirable,   \* for each, what scrape_full_article gives when it runs
    bReturned,    \* the list it returned
    bRaised,      \* the exception that left it
    \* ---- a CircuitBreaker shared by threads (SpecConc)
    shared,       \* the breaker
    clock,        \* time.time()
    tpc,          \* where each thread is in call()
    held,         \* the failure_count each thread read at line 49
    fails,        \* whether each thread's operation raises
    admitted,     \* the state in which each thread's call was let through
    calls,        \* calls each thread made
    failed,       \* operations of each thread that raised
    rejected,     \* calls of each thread that were rejected
    \* ---- url_resolver.resolve_google_news_url (SpecResolve)
    vpc,          \* where resolve_google_news_url is
    google_news_url, \* its argument
    current_url,
    last_response, \* `response`: the response of the latest request
    redirect_count,
    followed,     \* Location headers the loop has taken so far
    head_failed,  \* HEAD requests of the loop that raised
    vResult,      \* what it returned
    \* ---- resolve_google_news_url_with_selenium, called repeatedly (SpecSelenium)
    sCalls,       \* calls made so far
    sFailures,    \* browser launches that failed since the last one that did not
    sArgument,    \* the URL given to the latest call
    sLaunched,    \* whether the latest call launched the browser
    sReturned,    \* what the latest call returned
    \* ---- one readability or simplified tier call and its fetches (SpecFetch)
    fpc,          \* where the tier call is
    fTier,        \* 2 for scrape_article_with_readability, 3 for scrape_article_simplified
    fetch_fails,  \* requests.get raises on its first fetch_fails calls
    outer_attempt, \* `attempt` in the wrapper of the tier's inner function
    inner_attempt, \* `attempt` in the wrapper of _fetch_with_requests
    request_count, \* ArticleScraper.request_count
    fData         \* what the tier call returned

cbVars == <<cb, now, lastCall, nCalls, nFailing, nInvoked, nReraised, trialFailed>>

retryVars == <<policy, script, attempt, rpc, invocations, errs, sleeps, rResult, rRaised>>

scrapeVars ==
    <<spc, article_url, real_url, article_data, result, handled, scraper_cb,
      selenium_circuit_breaker, trail, browser, decoded_by, nAcq>>

decodeVars == <<dpc, source_url, plain, article_id, dResult, answer>>

batchVars ==
    <<bpc, articles, given, query_valid, SCRAPE_FULL_ARTICLES,
      successful_scrapes, failed_scrapes, attempted, acquirable, bReturned,
      bRaised>>

concVars ==
    <<shared, clock, tpc, held, fails, admitted, calls, failed, rejected>>

resolveVars ==
    <<vpc, google_news_url, current_url, last_response, redirect_count,
      followed, head_failed, vResult>>

seleniumVars == <<sCalls, sFailures, sArgument, sLaunched, sReturned>>

fetchVars ==
    <<fpc, fTier, fetch_fails, outer_attempt, inner_attempt, request_count, fData>>

vars == <<cbVars, retryVars, scrapeVars, decodeVars, batchVars, concVars, resolveVars, seleniumVars, fetchVars>>

--------------------------------------------------------------------------
(* Bounds of the model *)

MaxThreshold == 3      \* failure_threshold ranges over 1..MaxThreshold
MaxTimeout == 2        \* recovery_timeout ranges over 1..MaxTimeout
MaxTime == 7           \* the clock stops here
MaxCalls == 5          \* calls made on the breaker of SpecCB
MaxRetries == 3        \* max_retries ranges over 0..MaxRetries
MaxAcquisitions == 2   \* acquisitions made with one FullArticleScraper
MaxPlainLen == 3       \* bytes of a plaintext encoded in a source URL
MaxArticles == 4       \* articles in the list given to collect_full_articles
MaxCallers == 2        \* threads sharing the breaker of SpecConc
MaxConcCalls == 2      \* calls each of them makes
MaxConcTime == 3       \* the clock of SpecConc stops here
MaxFollowed == 12      \* Location headers one call of resolve_google_news_url takes
MaxSeleniumCalls == 7  \* calls of resolve_google_news_url_with_selenium
MaxFetchFails == 16    \* GET requests that raise before one is answered

--------------------------------------------------------------------------
(* Exceptions.  An exception object is a record: its class, the HTTP     *)
(* status of its response (0 when the class carries none) and the        *)
(* identity of the object (the attempt or call that created it).         *)

Exc(cls, status, id) == [cls |-> cls, status |-> status, id |-> id]

NoExc == Exc("none", 0, 0)

CircuitBreakerOpenException == Exc("CircuitBreakerOpenException", 0, 0)

--------------------------------------------------------------------------
(* CircuitBreaker, retry_utils.py:16-52 *)

NoTime == -1    \* last_failure_time = None

\* CircuitBreaker.__init__
CircuitBreaker(failure_threshold, recovery_timeout) ==
    [failure_threshold |-> failure_threshold,
     recovery_timeout  |-> recovery_timeout,
     failure_count     |-> 0,
     last_failure_time |-> NoTime,
     state             |-> "CLOSED"]

\* Python truth value of last_failure_time: None and 0.0 are false
Truthy(t) == t # NoTime /\ t # 0

\* call(), line 29: the recovery test made when the state is OPEN
RecoveryElapsed(b, t) ==
    Truthy(b.last_failure_time) /\ t - b.last_failure_time > b.recovery_timeout

\* call(), lines 28-32: whether the call goes on to invoke the operation
Admits(b, t) == b.state # "OPEN" \/ RecoveryElapsed(b, t)

\* call(), lines 28-30: the breaker as the operation runs
Entered(b, t) ==
    IF b.state = "OPEN" /\ RecoveryElapsed(b, t)
    THEN [b EXCEPT !.state = "HALF_OPEN"]
    ELSE b

\* a reset of the counter that leaves the state as it is
on_success_count_only(b) == [b EXCEPT !.failure_count = 0]

\* _on_success, lines 42-45
_on_success(b) == [b EXCEPT !.failure_count = 0, !.state = "CLOSED"]

\* an off-by-one threshold test: opens only above the threshold
on_failure_above(b, t) ==
    LET count == b.failure_count + 1
    IN  [b EXCEPT !.failure_count = count,
                  !.last_failure_time = t,
                  !.state = IF count > b.failure_threshold THEN "OPEN" ELSE @]

\* a failure that re-opens a HALF_OPEN breaker without restarting the timer
on_failure_keeps_time(b, t) ==
    LET count == b.failure_count + 1
    IN  [b EXCEPT !.failure_count = count,
                  !.last_failure_time = IF b.state = "HALF_OPEN" THEN @ ELSE t,
                  !.state = IF count >= b.failure_threshold THEN "OPEN" ELSE @]

\* _on_failure, lines 47-52; t is time.time() at line 50
_on_failure(b, t) ==
    LET count == b.failure_count + 1
    IN  [b EXCEPT !.failure_count = count,
                  !.last_failure_time = t,
                  !.state = IF count >= b.failure_threshold THEN "OPEN" ELSE @]

\* call(), lines 38-40: the exception call() raises when the operation raised e
Reraise(e) == e

\* call(), lines 35-37: what call() returns when the operation returned res
Return(res) == res

--------------------------------------------------------------------------
(* retry_with_backoff, retry_utils.py:58-138.  Delays are in milliseconds. *)

\* the default `exceptions` argument, line 71
RetryableClasses == {"RequestException", "ConnectionError", "TimeoutError"}

\* the classes an exception of class cls is an instance of
Bases(cls) ==
    CASE cls = "HTTPError" ->
           {"HTTPError", "RequestException", "OSError", "Exception"}
      [] cls = "RequestException" -> {"RequestException", "OSError", "Exception"}
      [] cls \in {"ConnectionError", "TimeoutError"} -> {cls, "OSError", "Exception"}
      [] cls = "UnboundLocalError" ->
           {"UnboundLocalError", "NameError", "Exception"}
      [] OTHER -> {cls, "Exception"}

\* an except clause that names RequestException alone
CaughtRequestOnly(e) == "RequestException" \in Bases(e.cls)

\* an except clause that catches every exception
CaughtAll(e) == TRUE

\* `except exceptions as e`, line 101
Caught(e) == Bases(e.cls) \cap RetryableClasses # {}

\* is_rate_limit_error, lines 58-62.  An HTTPError carries the response it
\* was raised for (raise_for_status), whose status_code is e.status.
is_rate_limit_error(e) == e.cls = "HTTPError" /\ e.status = 429

RECURSIVE Pow(_, _)
Pow(b, n) == IF n = 0 THEN 1 ELSE b * Pow(b, n - 1)

Min(a, b) == IF a <= b THEN a ELSE b

\* 0.5 + random.random() * 0.5, line 123, in thousandths: random() is in [0, 1)
JitterFactors == {500, 750, 999}

\* the exponent taken from the number of the next attempt
BaseDelayNextAttempt(p, n, e) ==
    IF is_rate_limit_error(e)
    THEN p.rate_limit_delay
    ELSE Min(p.base_delay * Pow(p.exponential_base, n + 1), p.max_delay)

\* lines 110-119: the delay before jitter
BaseDelay(p, n, e) ==
    IF is_rate_limit_error(e)
    THEN p.rate_limit_delay
    ELSE Min(p.base_delay * Pow(p.exponential_base, n), p.max_delay)

\* jitter applied whatever the error is
DelayJitterAlways(p, n, e, factor) ==
    IF p.jitter
    THEN (BaseDelay(p, n, e) * factor) \div 1000
    ELSE BaseDelay(p, n, e)

\* lines 109-123: the delay slept after attempt n failed with e
Delay(p, n, e, factor) ==
    IF p.jitter /\ ~is_rate_limit_error(e)
    THEN (BaseDelay(p, n, e) * factor) \div 1000
    ELSE BaseDelay(p, n, e)

\* a loop that stops one attempt early
LastAttemptEarly(p, n) == n + 1 >= p.max_retries

\* line 105: whether attempt n is the last one
LastAttempt(p, n) == n = p.max_retries

\* line 107: what the wrapper raises after the last attempt failed with e
FinalRaise(e) == e

--------------------------------------------------------------------------
(* URLs.  A URL string is what urlparse makes of it (scheme, netloc, the  *)
(* rest) and whether it is longer than 2048 characters.                   *)

Url(scheme, netloc, rest, long) ==
    [scheme |-> scheme, netloc |-> netloc, rest |-> rest, long |-> long]

None == Url("None", "", "", FALSE)        \* Python's None
EmptyUrl == Url("", "", "", FALSE)        \* ""

GNewsUrl == Url("https", "news.google.com", "/rss/articles/CBMi", FALSE)
GNewsHttpUrl == Url("http", "news.google.com", "/rss/articles/CBMi", FALSE)
GNewsReadUrl == Url("https", "news.google.com", "/read/CBMi", FALSE)
NoSchemeUrl == Url("", "", "news.google.com/rss/articles/CBMi", FALSE)
LongUrl == Url("https", "news.google.com", "/rss/articles/CBMi", TRUE)
ConsentUrl == Url("https", "consent.google.com", "/m", FALSE)
PublisherUrl == Url("https", "publisher.example", "/story", FALSE)
PublisherHttpUrl == Url("http", "publisher.example", "/story", FALSE)
ImageUrl == Url("https", "publisher.example", "/top.jpg", FALSE)
ImageHttpUrl == Url("http", "publisher.example", "/img.jpg", FALSE)

\* `not url`: None and "" are false
Falsy(url) == url = None \/ url = EmptyUrl

\* validate_url, validation.py:146-189: TRUE when it returns, FALSE when it
\* raises ValueError; it returns its argument unchanged
UrlValid(url, require_https) ==
    /\ ~Falsy(url)
    /\ url.scheme # ""
    /\ require_https => url.scheme = "https"
    /\ url.netloc # ""
    /\ url.scheme \notin {"javascript", "data"}
    /\ ~url.long

validate_url(url) == url

--------------------------------------------------------------------------
(* decode_google_news_url, google_news_decoder.py:19-73 *)

\* what gnewsdecoder does: the library is not installed, it raises, it
\* reports failure, or it reports a decoded URL
GnewsOutcomes ==
    {[kind |-> "unavailable", url |-> None], [kind |-> "raises", url |-> None],
     [kind |-> "failed", url |-> None], [kind |-> "decoded", url |-> EmptyUrl],
     [kind |-> "decoded", url |-> PublisherUrl],
     [kind |-> "decoded", url |-> PublisherHttpUrl]}

\* what url_resolver.resolve_google_news_url returns for the URL u
ResolverOutcomes(u) ==
    {[kind |-> "returns", url |-> r] :
        r \in {u, GNewsReadUrl, ConsentUrl, PublisherUrl, PublisherHttpUrl}}
    \cup {[kind |-> "raises", url |-> None]}

\* lines 41-54: method 1
GnewsDecoded(g) == g.kind = "decoded" /\ ~Falsy(g.url)

\* lines 57-69: method 2
ResolverDecoded(u, f) == f.kind = "returns" /\ ~Falsy(f.url) /\ f.url # u

\* lines 33-73
decode_google_news_url(u, g, f) ==
    IF Falsy(u) THEN None
    ELSE IF GnewsDecoded(g) THEN g.url
    ELSE IF ResolverDecoded(u, f) THEN f.url
    ELSE None

--------------------------------------------------------------------------
(* A call through a breaker: CircuitBreaker.call with the outcome `inner` *)
(* of the guarded function, [kind |-> "returns", value |-> v] or          *)
(* [kind |-> "raises", exc |-> e].  Yields the breaker afterwards and what *)
(* call() did.                                                             *)

Returns(v) == [kind |-> "returns", value |-> v, exc |-> NoExc]
RaisesExc(e) == [kind |-> "raises", value |-> None, exc |-> e]
NotReturned == [kind |-> "running", value |-> None, exc |-> NoExc]

\* retry_utils.py:26-40
BreakerCall(b, t, inner) ==
    IF ~Admits(b, t)
    THEN [cb |-> b, invoked |-> FALSE, out |-> RaisesExc(CircuitBreakerOpenException)]
    ELSE IF inner.kind = "returns"
    THEN [cb |-> _on_success(Entered(b, t)), invoked |-> TRUE,
          out |-> Returns(Return(inner.value))]
    ELSE [cb |-> _on_failure(Entered(b, t), t), invoked |-> TRUE,
          out |-> RaisesExc(Reraise(inner.exc))]

--------------------------------------------------------------------------
(* resolve_google_news_url_with_selenium, utils.py:101-190 *)

FAILURE_THRESHOLD == 5
RECOVERY_TIMEOUT == 60

\* what the browser does: it ends on a URL, or WebDriver raises
BrowserOutcomes(u) ==
    {[kind |-> "final", url |-> r] :
        r \in {u, ConsentUrl, PublisherUrl, PublisherHttpUrl}}
    \cup {[kind |-> "webdriver_error", url |-> None]}

resolve_selenium_none_on_error(u, s) ==
    IF s.kind = "final" THEN Returns(s.url) ELSE Returns(None)

\* _resolve_url_with_selenium, lines 107-161: every exception is caught
\* and answered with the URL given
_resolve_url_with_selenium(u, s) ==
    IF s.kind = "final" THEN Returns(s.url) ELSE Returns(u)

\* resolve_google_news_url_with_selenium, lines 163-190: the breaker after
\* the call, whether the browser was launched, and the URL returned
resolve_google_news_url_with_selenium(u, b, t, s) ==
    IF ~UrlValid(u, FALSE)
    THEN [cb |-> b, launched |-> FALSE, url |-> u]
    ELSE LET c == BreakerCall(b, t, _resolve_url_with_selenium(validate_url(u), s))
         IN  [cb |-> c.cb, launched |-> c.invoked,
              url |-> IF c.out.kind = "returns" THEN c.out.value ELSE u]

--------------------------------------------------------------------------
(* ArticleScraper, article_scraper.py:80-355.  An extracted text is its   *)
(* word count and whether it holds one of VERIFY_MESSAGES.                *)

WordCounts == {49, 50, 80, 99, 100}

\* lines 20-25
VERIFY_MESSAGES ==
    {"you are human", "are you human", "i'm not a robot", "recaptcha"}

\* what a text says where a verification message would stand
Phrases == {"", "are you human", "ARE YOU HUMAN"}

\* str.lower
lower(phrase) == IF phrase = "ARE YOU HUMAN" THEN "are you human" ELSE phrase

Texts == [words : WordCounts, phrase : Phrases]

NoText == [words |-> 0, phrase |-> ""]

\* line 201
has_verify_message(text) == lower(text.phrase) \in VERIFY_MESSAGES

READABILITY_MIN_WORDS == 100
SIMPLIFIED_MIN_WORDS == 50

Absent == "absent"     \* a key the dict does not hold

\* the dict the three tiers build, lines 118-132, 221-235 and 319-333
ArticleRecord(url, text, top_image, images) ==
    [url |-> url, text |-> text, top_image |-> top_image, images |-> images,
     gnews_link |-> None, decoded_url |-> None,
     top_image_local |-> Absent, local_images |-> Absent,
     local_article_file |-> Absent, markdown_file |-> Absent]

SixImages == [i \in 1..6 |-> ImageUrl]

\* what newspaper's download and parse may do
NewspaperOutcomes ==
    {[kind |-> "raises", text |-> t, top_image |-> EmptyUrl, images |-> <<>>] :
        t \in {[words |-> 49, phrase |-> ""]}}
    \cup [kind : {"parsed"}, text : Texts,
          top_image : {EmptyUrl, ImageUrl, ImageHttpUrl},
          images : {<<>>, <<ImageHttpUrl, ImageUrl>>, SixImages}]

\* what _fetch_with_requests and the parsing of its response may do
FetchOutcomes ==
    {[kind |-> "raises", text |-> t] : t \in {[words |-> 49, phrase |-> ""]}}
    \cup [kind : {"fetched"}, text : Texts]

\* _scrape_with_newspaper, lines 106-134
_scrape_with_newspaper(url, o) ==
    IF o.kind = "raises"
    THEN RaisesExc(Exc("ArticleException", 0, 1))
    ELSE Returns(ArticleRecord(url, o.text, o.top_image, o.images))

\* _scrape_with_readability, lines 171-238; the two warnings at lines 197
\* and 203 format article_title, a name the function does not define
_scrape_with_readability(url, o) ==
    IF o.kind = "raises"
    THEN RaisesExc(Exc("ConnectionError", 0, 2))
    ELSE IF o.text.words < READABILITY_MIN_WORDS
    THEN RaisesExc(Exc("NameError", 0, 2))
    ELSE IF has_verify_message(o.text)
    THEN RaisesExc(Exc("NameError", 0, 2))
    ELSE Returns(ArticleRecord(url, o.text, EmptyUrl, <<>>))

simplified_with_readability_floor(url, o) ==
    IF o.kind = "raises"
    THEN RaisesExc(Exc("ConnectionError", 0, 3))
    ELSE IF o.text.words < READABILITY_MIN_WORDS
    THEN Returns(None)
    ELSE Returns(ArticleRecord(url, o.text, EmptyUrl, <<>>))

\* _scrape_with_simplified_parsing, lines 259-336
_scrape_with_simplified_parsing(url, o) ==
    IF o.kind = "raises"
    THEN RaisesExc(Exc("ConnectionError", 0, 3))
    ELSE IF o.text.words < SIMPLIFIED_MIN_WORDS
    THEN Returns(None)
    ELSE Returns(ArticleRecord(url, o.text, EmptyUrl, <<>>))

\* scrape_article, scrape_article_with_readability and
\* scrape_article_simplified, lines 147-153, 251-257 and 349-355: the call
\* through the breaker, every exception answered with None
GuardedTier(b, t, inner) ==
    LET c == BreakerCall(b, t, inner)
    IN  [cb |-> c.cb, invoked |-> c.invoked,
         data |-> IF c.out.kind = "returns" THEN c.out.value ELSE None,
         outcome |-> IF ~c.invoked THEN "breaker_open"
                     ELSE IF c.out.kind = "raises" THEN "raised"
                     ELSE IF c.out.value = None THEN "reject"
                     ELSE "content"]

--------------------------------------------------------------------------
(* google_news_url_decoder.py.  Text is a sequence of character codes;    *)
(* latin1 maps every byte to the character of the same code.              *)

Str(chars) == [type |-> "str", chars |-> chars]
JsonNull == [type |-> "null", chars |-> <<>>]
JsonNumber == [type |-> "number", chars |-> <<>>]

PadChar == 61      \* "="

\* the character of the sextet i in the URL-safe alphabet
UrlsafeChar(i) ==
    IF i < 26 THEN 65 + i
    ELSE IF i < 52 THEN 97 + (i - 26)
    ELSE IF i < 62 THEN 48 + (i - 52)
    ELSE IF i = 62 THEN 45 ELSE 95

\* the character of the sextet i in the standard alphabet
StandardChar(i) ==
    IF i < 62 THEN UrlsafeChar(i) ELSE IF i = 62 THEN 43 ELSE 47

\* base64.urlsafe_b64encode
RECURSIVE urlsafe_b64encode(_)
urlsafe_b64encode(bytes) ==
    IF bytes = <<>> THEN <<>>
    ELSE IF Len(bytes) = 1
    THEN LET n == bytes[1] * 16
         IN  <<UrlsafeChar(n \div 64), UrlsafeChar(n % 64), PadChar, PadChar>>
    ELSE IF Len(bytes) = 2
    THEN LET n == (bytes[1] * 256 + bytes[2]) * 4
         IN  <<UrlsafeChar(n \div 4096), UrlsafeChar((n \div 64) % 64),
               UrlsafeChar(n % 64), PadChar>>
    ELSE LET n == bytes[1] * 65536 + bytes[2] * 256 + bytes[3]
         IN  <<UrlsafeChar(n \div 262144), UrlsafeChar((n \div 4096) % 64),
               UrlsafeChar((n \div 64) % 64), UrlsafeChar(n % 64)>>
             \o urlsafe_b64encode(SubSeq(bytes, 4, Len(bytes)))

\* str.rstrip('=')
RECURSIVE rstrip_pad(_)
rstrip_pad(chars) ==
    IF chars # <<>> /\ chars[Len(chars)] = PadChar
    THEN rstrip_pad(SubSeq(chars, 1, Len(chars) - 1))
    ELSE chars

\* lines 143-145: the padding is restored
RestorePadding(base64_part) ==
    LET missing_padding == Len(base64_part) % 4
    IN  IF missing_padding # 0
        THEN base64_part \o [i \in 1..(4 - missing_padding) |-> PadChar]
        ELSE base64_part

\* the sextets of the characters of an alphabet, other characters dropped
RECURSIVE Sextets(_, _)
Sextets(chars, urlsafe) ==
    IF chars = <<>> THEN <<>>
    ELSE LET c == Head(chars)
             hits == {i \in 0..63 :
                        \/ StandardChar(i) = c
                        \/ urlsafe /\ UrlsafeChar(i) = c}
         IN  (IF hits = {} THEN <<>> ELSE <<CHOOSE i \in hits : TRUE>>)
             \o Sextets(Tail(chars), urlsafe)

RECURSIVE BytesOf(_)
BytesOf(sx) ==
    IF Len(sx) < 2 THEN <<>>
    ELSE IF Len(sx) = 2 THEN <<(sx[1] * 64 + sx[2]) \div 16>>
    ELSE IF Len(sx) = 3
    THEN LET n == (sx[1] * 4096 + sx[2] * 64 + sx[3]) \div 4
         IN  <<n \div 256, n % 256>>
    ELSE LET n == sx[1] * 262144 + sx[2] * 4096 + sx[3] * 64 + sx[4]
         IN  <<n \div 65536, (n \div 256) % 256, n % 256>>
             \o BytesOf(SubSeq(sx, 5, Len(sx)))

PadCount(chars) == Len(chars) - Len(rstrip_pad(chars))

\* base64.b64decode (urlsafe = FALSE) and base64.urlsafe_b64decode
\* (urlsafe = TRUE) of a text whose "=" are at its end: characters outside
\* the alphabet are discarded, and the padding must complete the last quad
b64decode(chars, urlsafe) ==
    LET sx == Sextets(rstrip_pad(chars), urlsafe)
        r == Len(sx) % 4
        ok == \/ r = 0
              \/ r = 2 /\ PadCount(chars) >= 2
              \/ r = 3 /\ PadCount(chars) >= 1
    IN  IF ok THEN [ok |-> TRUE, bytes |-> BytesOf(sx)]
        ELSE [ok |-> FALSE, bytes |-> <<>>]

\* lines 147-157: urlsafe first, then the standard alphabet
DecodeToken(base64_part) ==
    LET first == b64decode(base64_part, TRUE)
    IN  IF first.ok THEN first ELSE b64decode(base64_part, FALSE)

\* str.startswith
StartsWith(s, prefix) ==
    Len(s) >= Len(prefix) /\ SubSeq(s, 1, Len(prefix)) = prefix

\* `sub in s`
Contains(s, sub) ==
    \E i \in 0..(Len(s) - Len(sub)) : SubSeq(s, i + 1, i + Len(sub)) = sub

NewStylePrefix == <<8, 19, 34>>                \* '\x08\x13"'
NewStyleMarker == <<65, 85, 95, 121, 113, 76>> \* "AU_yqL"

\* line 160
NewStyle(decoded_str) ==
    StartsWith(decoded_str, NewStylePrefix) \/ Contains(decoded_str, NewStyleMarker)

GoogleNewsHosts ==
    {"news.google.com", "news.google.com.au", "news.google.co.uk",
     "news.google.ca", "news.google.de"}

\* a URL as urlparse gives it: the hostname and the path split at "/",
\* the last segment as text
SourceUrl(hostname, dirs, last) ==
    [type |-> "str", hostname |-> hostname, dirs |-> dirs, last |-> last]

\* lines 134-136
IsArticlesUrl(url) ==
    /\ url.hostname \in GoogleNewsHosts
    /\ Len(url.dirs) + 1 > 1
    /\ url.dirs[Len(url.dirs)] \in {"articles", "rss"}

\* what decode_google_news_url does before any request, lines 130-173:
\* it returns the URL given, or asks batchexecute about an article id
DirectDecode(url) ==
    IF ~IsArticlesUrl(url)
    THEN [kind |-> "returns", article_id |-> <<>>]
    ELSE LET base64_part == RestorePadding(url.last)
             decoded == DecodeToken(base64_part)
         IN  IF ~decoded.ok THEN [kind |-> "returns", article_id |-> <<>>]
             ELSE IF NewStyle(decoded.bytes)
             THEN [kind |-> "batchexecute", article_id |-> rstrip_pad(base64_part)]
             ELSE [kind |-> "returns", article_id |-> <<>>]

\* the answers of batchexecute: the request fails, or the inner JSON of
\* the data line is one of these values
JsonUrl == Str(<<104, 116, 116, 112, 115>>)
JsonEmptyString == Str(<<>>)

InnerData ==
    {<<>>, <<Str(<<103>>)>>, <<Str(<<103>>), JsonUrl>>,
     <<Str(<<103>>), JsonEmptyString>>, <<Str(<<103>>), JsonNull>>,
     <<Str(<<103>>), JsonNumber>>, <<Str(<<103>>), JsonUrl, JsonNumber>>}

\* a JSON string whose text is itself the JSON of `value`
Encoded(value) == [type |-> "str", encodes |-> value]

\* json.loads of a JSON string's text: "wrb.fr", "Fbv4je" and the like are
\* no JSON
json_loads(s) ==
    IF "encodes" \in DOMAIN s THEN Returns(s.encodes)
    ELSE RaisesExc(Exc("JSONDecodeError", 0, 5))

WrbFr == Str(<<119, 114, 98, 46, 102, 114>>)
Fbv4je == Str(<<70, 98, 118, 52, 106, 101>>)

\* what json.loads makes of the third line of an answer: the envelope
\* batchexecute sends, with the payload after "wrb.fr" and "Fbv4je"; one
\* with the payload as the second element of its first element; and
\* shorter ones
Envelopes(inner) ==
    {<<<<WrbFr, Fbv4je, Encoded(inner)>>, <<Str(<<100, 105>>)>>>>,
     <<<<Str(<<103>>), Encoded(inner)>>, <<Str(<<100, 105>>)>>>>,
     <<<<Str(<<103>>), Encoded(inner)>>>>,
     <<<<Str(<<103>>)>>, <<Str(<<100, 105>>)>>>>}

\* an answer is the number of lines of its text and its third line; the
\* first two lines are ")]}'" and an empty line
Responses ==
    {[kind |-> "request_error", lines |-> 0, third |-> <<>>]}
    \cup [kind : {"answered"}, lines : {2, 3},
          third : {<<>>} \cup UNION {Envelopes(x) : x \in InnerData}]

\* line.startswith('[["wrb.fr","Fbv4je"'), line 80: a JSON text begins so
\* exactly when its first element is a list that begins with these two
\* strings
StartsWithMarker(response_data) ==
    /\ response_data # <<>>
    /\ Len(response_data[1]) >= 2
    /\ response_data[1][1] = WrbFr
    /\ response_data[1][2] = Fbv4je

\* lines 79-82: the loop over the lines finds a data line
DataLineByMarker(response) ==
    /\ response.kind = "answered"
    /\ response.lines >= 3
    /\ StartsWithMarker(response.third)

\* lines 100-102
SecondElement(response_data) ==
    IF Len(response_data[1]) > 1 THEN response_data[1][2] ELSE JsonNull

\* fetch_decoded_batch_execute, lines 47-117; the data line is the third
\* line, found by the marker (line 81) or taken as the fallback (line 87)
fetch_decoded_batch_execute(response) ==
    IF response.kind = "request_error"
    THEN RaisesExc(Exc("RequestException", 0, 5))
    ELSE IF response.lines < 3
    THEN RaisesExc(Exc("Exception", 0, 5))
    ELSE IF response.third = <<>> \/ Len(response.third) < 2
    THEN RaisesExc(Exc("Exception", 0, 5))
    ELSE IF SecondElement(response.third) \in {JsonNull, Str(<<>>)}
    THEN RaisesExc(Exc("Exception", 0, 5))
    ELSE LET inner_data == json_loads(SecondElement(response.third))
         IN  IF inner_data.kind = "raises" THEN inner_data
             ELSE IF inner_data.value = <<>> \/ Len(inner_data.value) < 2
             THEN RaisesExc(Exc("Exception", 0, 5))
             ELSE Returns(inner_data.value[2])

\* lines 162-166
DecodeWithBatchExecute(url, response) ==
    LET r == fetch_decoded_batch_execute(response)
    IN  IF r.kind = "returns" THEN r.value ELSE url

--------------------------------------------------------------------------
(* collect_full_articles, article_processor.py:19-95 *)

FULL_ARTICLES_COUNT == 3

\* an article as parser.py:119-127 builds it: a serial number and a link
\* that is a URL or the text N/A; full is what line 69 adds
NotApplicable == Url("", "", "N/A", FALSE)

Article(serial_number, link) ==
    [serial_number |-> serial_number, link |-> link, full |-> FALSE]

\* articles[:Config.FULL_ARTICLES_COUNT], line 62
TopArticles(list) == SubSeq(list, 1, Min(FULL_ARTICLES_COUNT, Len(list)))

\* the positional arguments line 65 passes to scrape_full_article and the
\* ones its signature takes (full_article_scraper.py:35), self aside
ArgumentsPassed == 3
ArgumentsTaken == 2

\* what scrape_full_article gives when it runs: a record or None
AcquisitionOutcomes ==
    {Returns(None),
     Returns(ArticleRecord(PublisherUrl, [words |-> 100, phrase |-> ""],
                           EmptyUrl, <<>>))}

\* the call of line 65: Python binds the arguments before the body runs
CallScrapeFullArticle(passed, out) ==
    IF passed > ArgumentsTaken
    THEN RaisesExc(Exc("TypeError", 0, 6))
    ELSE out

BatchCatchesNamed(e) ==
    Bases(e.cls) \cap {"RequestException", "ValueError"} # {}

\* the except clauses of lines 81-92
BatchCatches(e) ==
    Bases(e.cls) \cap {"RequestException", "ValueError", "Exception"} # {}

--------------------------------------------------------------------------
(* A component that a specification does not run stays as constructed. *)

NoCall ==
    [pre |-> CircuitBreaker(1, 1), t |-> 0, tEnd |-> 0, opFails |-> FALSE,
     invoked |-> FALSE, during |-> "none", outcome |-> "none",
     opExc |-> NoExc, raised |-> NoExc, returned |-> "none",
     trialFailedBefore |-> NoTime]

CBIdle ==
    /\ cb = CircuitBreaker(1, 1) /\ now = 1 /\ lastCall = NoCall
    /\ nCalls = 0 /\ nFailing = 0 /\ nInvoked = 0 /\ nReraised = 0
    /\ trialFailed = NoTime

RetryIdle ==
    /\ policy = [max_retries |-> 0, base_delay |-> 1000, max_delay |-> 60000,
                 exponential_base |-> 2, jitter |-> FALSE,
                 rate_limit_delay |-> 10000]
    /\ script = [fails |-> 0, then |-> "returns"]
    /\ attempt = 0 /\ rpc = "idle" /\ invocations = 0
    /\ errs = <<>> /\ sleeps = <<>>
    /\ rResult = "none" /\ rRaised = NoExc

ScrapeIdle ==
    /\ spc = "idle"
    /\ article_url = None /\ real_url = None /\ article_data = None
    /\ result = NotReturned /\ handled = NoExc
    /\ scraper_cb = CircuitBreaker(FAILURE_THRESHOLD, RECOVERY_TIMEOUT)
    /\ selenium_circuit_breaker = CircuitBreaker(FAILURE_THRESHOLD, RECOVERY_TIMEOUT)
    /\ trail = <<>> /\ browser = FALSE /\ decoded_by = "none"
    /\ nAcq = 0

NoAnswer == [kind |-> "none", lines |-> 0, third |-> <<>>]

DecodeIdle ==
    /\ dpc = "idle" /\ source_url = SourceUrl("", <<>>, <<>>)
    /\ plain = <<>> /\ article_id = <<>> /\ dResult = JsonNull
    /\ answer = NoAnswer

BatchIdle ==
    /\ bpc = "idle" /\ articles = <<>> /\ given = <<>>
    /\ query_valid = TRUE /\ SCRAPE_FULL_ARTICLES = FALSE
    /\ successful_scrapes = 0 /\ failed_scrapes = 0
    /\ attempted = <<>> /\ acquirable = <<>>
    /\ bReturned = <<>> /\ bRaised = NoExc

ConcIdle ==
    /\ shared = CircuitBreaker(1, 1) /\ clock = 1
    /\ tpc = <<>> /\ held = <<>> /\ fails = <<>> /\ admitted = <<>>
    /\ calls = <<>> /\ failed = <<>> /\ rejected = <<>>

ResolveIdle ==
    /\ vpc = "idle" /\ google_news_url = None /\ current_url = None
    /\ last_response = [status_code |-> 0, location |-> None]
    /\ redirect_count = 0 /\ followed = 0 /\ head_failed = 0
    /\ vResult = None

SeleniumIdle ==
    /\ sCalls = 0 /\ sFailures = 0
    /\ sArgument = None /\ sLaunched = FALSE /\ sReturned = None

FetchIdle ==
    /\ fpc = "idle" /\ fTier = 2 /\ fetch_fails = 0
    /\ outer_attempt = 0 /\ inner_attempt = 0 /\ request_count = 0
    /\ fData = None

--------------------------------------------------------------------------
(* SpecCB: one caller, one breaker.  A call() is one step: the caller is  *)
(* the only thread, the operation takes d ticks of the clock.             *)

OpClasses == {"ConnectionError", "ValueError"}

OpDurations == {0, 1}

OpResult == "Success"

CBInit ==
    /\ FetchIdle
    /\ SeleniumIdle
    /\ ResolveIdle
    /\ RetryIdle
    /\ ScrapeIdle
    /\ ConcIdle
    /\ BatchIdle
    /\ DecodeIdle
    /\ \E T \in 1..MaxThreshold, R \in 1..MaxTimeout : cb = CircuitBreaker(T, R)
    /\ now = 1
    /\ lastCall = NoCall
    /\ nCalls = 0 /\ nFailing = 0 /\ nInvoked = 0 /\ nReraised = 0
    /\ trialFailed = NoTime

\* time passes between calls
Tick ==
    /\ now < MaxTime
    /\ now' = now + 1
    /\ UNCHANGED <<cb, lastCall, nCalls, nFailing, nInvoked, nReraised, trialFailed>>

\* call(func) while OPEN and not recovered: line 32
CallRejected(opFails) ==
    /\ nCalls < MaxCalls
    /\ ~Admits(cb, now)
    /\ lastCall' = [pre |-> cb, t |-> now, tEnd |-> now, opFails |-> opFails,
                    invoked |-> FALSE, during |-> "none", outcome |-> "raised",
                    opExc |-> NoExc, raised |-> CircuitBreakerOpenException,
                    returned |-> "none", trialFailedBefore |-> trialFailed]
    /\ nCalls' = nCalls + 1
    /\ nFailing' = nFailing + (IF opFails THEN 1 ELSE 0)
    /\ UNCHANGED <<cb, now, nInvoked, nReraised, trialFailed>>

\* call(func) where func returns: lines 35-37
CallReturns(d) ==
    /\ nCalls < MaxCalls
    /\ now + d <= MaxTime
    /\ Admits(cb, now)
    /\ cb' = _on_success(Entered(cb, now))
    /\ now' = now + d
    /\ lastCall' = [pre |-> cb, t |-> now, tEnd |-> now + d, opFails |-> FALSE,
                    invoked |-> TRUE, during |-> Entered(cb, now).state,
                    outcome |-> "returned", opExc |-> NoExc, raised |-> NoExc,
                    returned |-> Return(OpResult), trialFailedBefore |-> trialFailed]
    /\ nCalls' = nCalls + 1
    /\ nInvoked' = nInvoked + 1
    /\ UNCHANGED <<nFailing, nReraised, trialFailed>>

\* call(func) where func raises e: lines 35, 38-40
CallRaises(d, cls) ==
    LET e == Exc(cls, 0, nCalls + 1)
        entered == Entered(cb, now)
    IN  /\ nCalls < MaxCalls
        /\ now + d <= MaxTime
        /\ Admits(cb, now)
        /\ cb' = _on_failure(entered, now + d)
        /\ now' = now + d
        /\ lastCall' = [pre |-> cb, t |-> now, tEnd |-> now + d, opFails |-> TRUE,
                        invoked |-> TRUE, during |-> entered.state,
                        outcome |-> "raised", opExc |-> e, raised |-> Reraise(e),
                        returned |-> "none", trialFailedBefore |-> trialFailed]
        /\ nCalls' = nCalls + 1
        /\ nFailing' = nFailing + 1
        /\ nInvoked' = nInvoked + 1
        /\ nReraised' = nReraised + (IF Reraise(e) = e THEN 1 ELSE 0)
        /\ trialFailed' = IF entered.state = "HALF_OPEN" THEN now + d ELSE trialFailed

CBNext ==
    \/ Tick /\ UNCHANGED <<retryVars, scrapeVars, decodeVars, batchVars, concVars, resolveVars, seleniumVars, fetchVars>>
    \/ \E opFails \in BOOLEAN : CallRejected(opFails) /\ UNCHANGED <<retryVars, scrapeVars, decodeVars, batchVars, concVars, resolveVars, seleniumVars, fetchVars>>
    \/ \E d \in OpDurations : CallReturns(d) /\ UNCHANGED <<retryVars, scrapeVars, decodeVars, batchVars, concVars, resolveVars, seleniumVars, fetchVars>>
    \/ \E d \in OpDurations, cls \in OpClasses :
          CallRaises(d, cls) /\ UNCHANGED <<retryVars, scrapeVars, decodeVars, batchVars, concVars, resolveVars, seleniumVars, fetchVars>>

SpecCB == CBInit /\ [][CBNext]_vars

--------------------------------------------------------------------------
(* SpecRetry: the wrapper (no circuit_breaker argument) around an          *)
(* operation that raises a retryable error on its first script.fails       *)
(* invocations and then does script.then.                                  *)

Policies ==
    [max_retries : 0..MaxRetries, base_delay : {500, 1000},
     max_delay : {3000, 60000}, exponential_base : {2, 3},
     jitter : BOOLEAN, rate_limit_delay : {10000, 15000}]

Scripts == [fails : 0..(MaxRetries + 1), then : {"returns", "raises_other"}]

\* the errors inside `exceptions` the operation may raise at its id-th invocation
RetryableErrors(id) ==
    {Exc("ConnectionError", 0, id), Exc("HTTPError", 429, id),
     Exc("HTTPError", 503, id)}

\* the error outside `exceptions` the operation raises at its id-th invocation
OtherError(id) == Exc("ValueError", 0, id)

\* what the id-th invocation of the operation may raise
Raises(id) ==
    IF id <= script.fails THEN RetryableErrors(id)
    ELSE IF script.then = "raises_other" THEN {OtherError(id)}
    ELSE {}

\* what the operation returns
OpValue == "Success on attempt"

RetryInit ==
    /\ FetchIdle
    /\ SeleniumIdle
    /\ ResolveIdle
    /\ policy \in Policies
    /\ script \in Scripts
    /\ attempt = 0 /\ rpc = "running" /\ invocations = 0
    /\ errs = <<>> /\ sleeps = <<>>
    /\ rResult = "none" /\ rRaised = NoExc
    /\ CBIdle
    /\ ScrapeIdle
    /\ ConcIdle
    /\ BatchIdle
    /\ DecodeIdle

\* lines 98-100: the operation returns
AttemptReturns ==
    /\ rpc = "running"
    /\ Raises(invocations + 1) = {}
    /\ invocations' = invocations + 1
    /\ rResult' = OpValue
    /\ rpc' = "returned"
    /\ UNCHANGED <<policy, script, attempt, errs, sleeps, rRaised>>

\* lines 98-101: the operation raises an exception that `except exceptions`
\* does not catch
AttemptPropagates(e) ==
    /\ rpc = "running"
    /\ ~Caught(e)
    /\ invocations' = invocations + 1
    /\ rRaised' = e
    /\ rpc' = "raised"
    /\ UNCHANGED <<policy, script, attempt, errs, sleeps, rResult>>

\* lines 98-107: the last attempt raises an exception that is caught
AttemptFailsLast(e) ==
    /\ rpc = "running"
    /\ Caught(e)
    /\ LastAttempt(policy, attempt)
    /\ invocations' = invocations + 1
    /\ errs' = Append(errs, e)
    /\ rRaised' = FinalRaise(e)
    /\ rpc' = "raised"
    /\ UNCHANGED <<policy, script, attempt, sleeps, rResult>>

\* lines 98-131: an earlier attempt raises an exception that is caught
AttemptFailsSleeps(e, factor) ==
    /\ rpc = "running"
    /\ Caught(e)
    /\ ~LastAttempt(policy, attempt)
    /\ invocations' = invocations + 1
    /\ errs' = Append(errs, e)
    /\ sleeps' = Append(sleeps, Delay(policy, attempt, e, factor))
    /\ attempt' = attempt + 1
    /\ UNCHANGED <<policy, script, rpc, rResult, rRaised>>

RetryNext ==
    \/ AttemptReturns /\ UNCHANGED <<cbVars, scrapeVars, decodeVars, batchVars, concVars, resolveVars, seleniumVars, fetchVars>>
    \/ \E e \in Raises(invocations + 1) :
          AttemptPropagates(e) /\ UNCHANGED <<cbVars, scrapeVars, decodeVars, batchVars, concVars, resolveVars, seleniumVars, fetchVars>>
    \/ \E e \in Raises(invocations + 1) :
          AttemptFailsLast(e) /\ UNCHANGED <<cbVars, scrapeVars, decodeVars, batchVars, concVars, resolveVars, seleniumVars, fetchVars>>
    \/ \E e \in Raises(invocations + 1), factor \in JitterFactors :
          AttemptFailsSleeps(e, factor) /\ UNCHANGED <<cbVars, scrapeVars, decodeVars, batchVars, concVars, resolveVars, seleniumVars, fetchVars>>

SpecRetry == RetryInit /\ [][RetryNext]_vars

--------------------------------------------------------------------------
(* SpecScrape: one FullArticleScraper making acquisitions one after the   *)
(* other.  scrape_full_article, full_article_scraper.py:35-144, runs in   *)
(* steps; the clock moves between acquisitions.                           *)

Inputs == {GNewsUrl, GNewsHttpUrl, NoSchemeUrl, EmptyUrl, LongUrl}

\* the except clauses of lines 133-144
OuterHandlers == {"RequestException", "ValueError", "OSError", "Exception"}

OuterCatchesNamed(e) ==
    Bases(e.cls) \cap {"RequestException", "ValueError", "OSError"} # {}

\* whether the try of lines 53-144 catches e
OuterCatches(e) == Bases(e.cls) \cap OuterHandlers # {}

ScrapeInit ==
    /\ FetchIdle
    /\ SeleniumIdle
    /\ ResolveIdle
    /\ CBIdle
    /\ RetryIdle
    /\ ScrapeIdle
    /\ ConcIdle
    /\ BatchIdle
    /\ DecodeIdle

\* between acquisitions, time passes
Wait ==
    /\ spc \in {"idle", "returned"}
    /\ nAcq < MaxAcquisitions
    /\ now < MaxTime
    /\ now' = now + RECOVERY_TIMEOUT + 1
    /\ UNCHANGED <<cb, lastCall, nCalls, nFailing, nInvoked, nReraised, trialFailed>>
    /\ UNCHANGED <<retryVars, scrapeVars, decodeVars, batchVars, concVars, resolveVars, seleniumVars, fetchVars>>

\* lines 46-51: the argument is validated
Start(u) ==
    /\ spc \in {"idle", "returned"}
    /\ nAcq < MaxAcquisitions
    /\ nAcq' = nAcq + 1
    /\ article_url' = u
    /\ real_url' = None /\ article_data' = None
    /\ handled' = NoExc
    /\ trail' = <<>> /\ browser' = FALSE /\ decoded_by' = "none"
    /\ IF UrlValid(u, TRUE)
       THEN spc' = "decode" /\ result' = NotReturned
       ELSE spc' = "returned" /\ result' = Returns(None)
    /\ UNCHANGED <<scraper_cb, selenium_circuit_breaker>>
    /\ UNCHANGED <<cbVars, retryVars, decodeVars, batchVars, concVars, resolveVars, seleniumVars, fetchVars>>

\* the strategy of decode_google_news_url that answered, lines 49 and 65
DecodeStrategy(u, g, f) ==
    IF Falsy(u) THEN "none"
    ELSE IF GnewsDecoded(g) THEN "gnewsdecoder"
    ELSE IF ResolverDecoded(u, f) THEN "fallback_resolver"
    ELSE "none"

\* how resolve_google_news_url_with_selenium came to its answer: the
\* browser's final URL (utils.py:145), the URL given after an error
\* (lines 150 and 154), or the URL given without a launch (lines 182, 190)
SeleniumStrategy(launched, s) ==
    IF ~launched THEN "selenium_not_run"
    ELSE IF s.kind = "final" THEN "selenium"
    ELSE "selenium_error"

\* line 55: decode_google_news_url(validated_url)
Decode(g, f) ==
    /\ spc = "decode"
    /\ real_url' = decode_google_news_url(validate_url(article_url), g, f)
    /\ spc' = IF Falsy(real_url') THEN "selenium" ELSE "validate"
    /\ decoded_by' = DecodeStrategy(validate_url(article_url), g, f)
    /\ UNCHANGED <<article_url, article_data, result, handled, scraper_cb,
                   selenium_circuit_breaker, trail, browser, nAcq>>
    /\ UNCHANGED <<cbVars, retryVars, decodeVars, batchVars, concVars, resolveVars, seleniumVars, fetchVars>>

\* lines 56-58: resolve_google_news_url_with_selenium(validated_url)
Selenium(s) ==
    LET r == resolve_google_news_url_with_selenium(
                 validate_url(article_url), selenium_circuit_breaker, now, s)
    IN  /\ spc = "selenium"
        /\ real_url' = r.url
        /\ selenium_circuit_breaker' = r.cb
        /\ browser' = r.launched
        /\ decoded_by' = SeleniumStrategy(r.launched, s)
        /\ spc' = "validate"
        /\ UNCHANGED <<article_url, article_data, result, handled,
                       scraper_cb, trail, nAcq>>
        /\ UNCHANGED <<cbVars, retryVars, decodeVars, batchVars, concVars, resolveVars, seleniumVars, fetchVars>>

\* lines 62-67: the resolved URL is validated
ValidateResolved ==
    /\ spc = "validate"
    /\ IF UrlValid(real_url, TRUE)
       THEN spc' = "tier1" /\ result' = result
       ELSE spc' = "returned" /\ result' = Returns(None)
    /\ UNCHANGED <<article_url, real_url, article_data, handled, scraper_cb,
                   selenium_circuit_breaker, trail, browser, decoded_by,
                   nAcq>>
    /\ UNCHANGED <<cbVars, retryVars, decodeVars, batchVars, concVars, resolveVars, seleniumVars, fetchVars>>

NoContentAlways(data) == TRUE

\* lines 71, 76 and 79: `not article_data`
NoContent(data) == data = None

\* the tier `n` run against the URL given, where the page gives o and the
\* guarded function does `inner`
RunTier(n, url, o, inner, next) ==
    LET r == GuardedTier(scraper_cb, now, inner)
    IN  /\ scraper_cb' = r.cb
        /\ article_data' = r.data
        /\ trail' = Append(trail,
               [tier |-> n, url |-> url, outcome |-> r.outcome,
                kind |-> IF r.invoked THEN o.kind ELSE "not_run",
                text |-> IF r.invoked THEN o.text ELSE NoText])
        /\ spc' = next
        /\ UNCHANGED <<article_url, real_url, result, handled,
                       selenium_circuit_breaker, browser, decoded_by,
                       nAcq>>
        /\ UNCHANGED <<cbVars, retryVars, decodeVars, batchVars, concVars, resolveVars, seleniumVars, fetchVars>>

\* line 70: scrape_article
Tier1(o) ==
    /\ spc = "tier1"
    /\ RunTier(1, validate_url(real_url), o,
               _scrape_with_newspaper(validate_url(real_url), o), "tier2")

\* lines 71-73: scrape_article_with_readability, if there is no data yet
Tier2(o) ==
    /\ spc = "tier2"
    /\ NoContent(article_data)
    /\ RunTier(2, validate_url(real_url), o,
               _scrape_with_readability(validate_url(real_url), o), "tier3")

\* lines 76-77: scrape_article_simplified, if there is no data yet
Tier3(o) ==
    /\ spc = "tier3"
    /\ NoContent(article_data)
    /\ RunTier(3, validate_url(real_url), o,
               _scrape_with_simplified_parsing(validate_url(real_url), o),
               "attach")

\* lines 71 and 76: a tier is skipped when there is data
SkipTier ==
    /\ spc \in {"tier2", "tier3"}
    /\ ~NoContent(article_data)
    /\ spc' = IF spc = "tier2" THEN "tier3" ELSE "attach"
    /\ UNCHANGED <<article_url, real_url, article_data, result, handled,
                   scraper_cb, selenium_circuit_breaker, trail, browser, decoded_by,
                   nAcq>>
    /\ UNCHANGED <<cbVars, retryVars, decodeVars, batchVars, concVars, resolveVars, seleniumVars, fetchVars>>

AttachLinksSwapped(data, validated_url, resolved) ==
    [data EXCEPT !.gnews_link = resolved, !.decoded_url = validated_url]

\* lines 84-85: both links are added to the record
AttachLinks(data, validated_url, resolved) ==
    [data EXCEPT !.gnews_link = validated_url, !.decoded_url = resolved]

\* lines 79-85: no data is a failure, data gets the two links
Attach ==
    /\ spc = "attach"
    /\ IF NoContent(article_data)
       THEN /\ spc' = "returned" /\ result' = Returns(None)
            /\ UNCHANGED article_data
       ELSE /\ spc' = "images" /\ result' = result
            /\ article_data' =
                 AttachLinks(article_data, validate_url(article_url), real_url)
    /\ UNCHANGED <<article_url, real_url, handled, scraper_cb,
                   selenium_circuit_breaker, trail, browser, decoded_by,
                   nAcq>>
    /\ UNCHANGED <<cbVars, retryVars, decodeVars, batchVars, concVars, resolveVars, seleniumVars, fetchVars>>

\* the paths download_image returns for the images, None for a failure
RECURSIVE LocalImages(_, _)
LocalImages(images, downloaded) ==
    IF images = <<>> THEN <<>>
    ELSE LET rest == LocalImages(Tail(images), downloaded)
         IN  IF UrlValid(Head(images), TRUE) /\ downloaded
             THEN <<"images/img">> \o rest
             ELSE rest

MAX_IMAGES == 5

\* line 103: images[:5]
FirstImages(images) ==
    SubSeq(images, 1, Min(MAX_IMAGES, Len(images)))

\* lines 87-118: the top image and the first five other images
Images(top_ok, others_ok) ==
    /\ spc = "images"
    /\ article_data' =
         [article_data EXCEPT
            !.top_image_local =
               IF ~Falsy(article_data.top_image)
                  /\ UrlValid(article_data.top_image, TRUE) /\ top_ok
               THEN "images/top" ELSE @,
            !.local_images =
               LocalImages(FirstImages(article_data.images), others_ok)]
    /\ spc' = "save"
    /\ UNCHANGED <<article_url, real_url, result, handled, scraper_cb,
                   selenium_circuit_breaker, trail, browser, decoded_by,
                   nAcq>>
    /\ UNCHANGED <<cbVars, retryVars, decodeVars, batchVars, concVars, resolveVars, seleniumVars, fetchVars>>

\* what generate_markdown does: a path, None, or (os.makedirs failing before
\* `title` is bound, the handler at line 91 formatting it) an exception
MarkdownOutcomes ==
    {Returns("articles/a.md"), Returns(Absent),
     RaisesExc(Exc("UnboundLocalError", 0, 4))}

\* lines 120-144: the text file, the Markdown file, the return; an
\* exception is answered by the handlers of lines 133-144
Save(text_path, md) ==
    /\ spc = "save"
    /\ spc' = "returned"
    /\ IF md.kind = "raises"
       THEN /\ article_data' = [article_data EXCEPT
                                   !.local_article_file = text_path]
            /\ IF OuterCatches(md.exc)
               THEN result' = Returns(None) /\ handled' = md.exc
               ELSE result' = RaisesExc(md.exc) /\ handled' = NoExc
       ELSE /\ article_data' = [article_data EXCEPT
                                   !.local_article_file = text_path,
                                   !.markdown_file = md.value]
            /\ result' = Returns(article_data')
            /\ UNCHANGED handled
    /\ UNCHANGED <<article_url, real_url, scraper_cb,
                   selenium_circuit_breaker, trail, browser, decoded_by,
                   nAcq>>
    /\ UNCHANGED <<cbVars, retryVars, decodeVars, batchVars, concVars, resolveVars, seleniumVars, fetchVars>>

ScrapeNext ==
    \/ Wait
    \/ \E u \in Inputs : Start(u)
    \/ \E g \in GnewsOutcomes, f \in ResolverOutcomes(article_url) : Decode(g, f)
    \/ \E s \in BrowserOutcomes(article_url) : Selenium(s)
    \/ ValidateResolved
    \/ \E o \in NewspaperOutcomes : Tier1(o)
    \/ \E o \in FetchOutcomes : Tier2(o)
    \/ \E o \in FetchOutcomes : Tier3(o)
    \/ SkipTier
    \/ Attach
    \/ \E top_ok, others_ok \in BOOLEAN : Images(top_ok, others_ok)
    \/ \E text_path \in {"articles/a.txt", Absent}, md \in MarkdownOutcomes :
          Save(text_path, md)

SpecScrape == ScrapeInit /\ [][ScrapeNext]_vars

--------------------------------------------------------------------------
(* SpecDecode: one call of google_news_url_decoder.decode_google_news_url *)
(* (lines 119-176), for each source URL of a bounded set.                 *)

PlainBytes == {8, 19, 34, 47}

\* the plaintexts: every text of up to MaxPlainLen bytes, two with bytes
\* that encode to "-" and "_", and two of the new style
Plaintexts ==
    UNION {[1..n -> PlainBytes] : n \in 0..MaxPlainLen}
    \cup {<<251, 255>>, <<255, 255, 255>>, NewStyleMarker, <<47>> \o NewStyleMarker}

\* tokens that encode nothing
JunkTokens == {<<65>>, <<65, 65, 65, 65, 45>>, <<46, 46>>}

Hostnames == {"news.google.com", "news.google.de", "publisher.example"}

Dirs == {<<>>, <<"">>, <<"", "read">>, <<"", "articles">>, <<"", "rss", "articles">>,
         <<"", "rss">>}

DecodeInit ==
    /\ FetchIdle
    /\ SeleniumIdle
    /\ ResolveIdle
    /\ CBIdle
    /\ RetryIdle
    /\ ScrapeIdle
    /\ ConcIdle
    /\ BatchIdle
    /\ dpc = "called"
    /\ \E h \in Hostnames, ds \in Dirs :
          \/ \E p \in Plaintexts, strip \in BOOLEAN :
                /\ plain = p
                /\ source_url =
                     SourceUrl(h, ds, IF strip THEN rstrip_pad(urlsafe_b64encode(p))
                                      ELSE urlsafe_b64encode(p))
          \/ \E t \in JunkTokens :
                /\ plain = <<>>
                /\ source_url = SourceUrl(h, ds, t)
    /\ article_id = <<>>
    /\ dResult = JsonNull
    /\ answer = NoAnswer

\* lines 157, 171 and 173: the source URL is returned
DecodeReturnsSource ==
    /\ dpc = "called"
    /\ DirectDecode(source_url).kind = "returns"
    /\ dpc' = "returned"
    /\ dResult' = source_url
    /\ UNCHANGED <<source_url, plain, article_id, answer>>
    /\ UNCHANGED <<cbVars, retryVars, scrapeVars, batchVars, concVars, resolveVars, seleniumVars, fetchVars>>

\* lines 160-163: batchexecute is asked
DecodeAsks ==
    /\ dpc = "called"
    /\ DirectDecode(source_url).kind = "batchexecute"
    /\ dpc' = "batchexecute"
    /\ article_id' = DirectDecode(source_url).article_id
    /\ UNCHANGED <<source_url, plain, dResult, answer>>
    /\ UNCHANGED <<cbVars, retryVars, scrapeVars, batchVars, concVars, resolveVars, seleniumVars, fetchVars>>

\* lines 163-166: its answer, or the source URL when it raised
BatchExecute(response) ==
    /\ dpc = "batchexecute"
    /\ dpc' = "returned"
    /\ dResult' = DecodeWithBatchExecute(source_url, response)
    /\ answer' = response
    /\ UNCHANGED <<source_url, plain, article_id>>
    /\ UNCHANGED <<cbVars, retryVars, scrapeVars, batchVars, concVars, resolveVars, seleniumVars, fetchVars>>

DecodeNext ==
    \/ DecodeReturnsSource
    \/ DecodeAsks
    \/ \E response \in Responses : BatchExecute(response)

SpecDecode == DecodeInit /\ [][DecodeNext]_vars

--------------------------------------------------------------------------
(* SpecBatch: one call of collect_full_articles on a list of up to        *)
(* MaxArticles articles.                                                  *)

Links == {GNewsUrl, NotApplicable}

ArticleLists ==
    UNION {{[i \in 1..n |-> Article(i, links[i])] : links \in [1..n -> Links]} :
              n \in 0..MaxArticles}

BatchInit ==
    /\ FetchIdle
    /\ SeleniumIdle
    /\ ResolveIdle
    /\ CBIdle
    /\ RetryIdle
    /\ ScrapeIdle
    /\ ConcIdle
    /\ DecodeIdle
    /\ bpc = "called"
    /\ articles \in ArticleLists
    /\ given = articles
    /\ query_valid \in BOOLEAN
    /\ SCRAPE_FULL_ARTICLES \in BOOLEAN
    /\ successful_scrapes = 0 /\ failed_scrapes = 0
    /\ attempted = <<>>
    /\ acquirable = <<>>
    /\ bReturned = <<>>
    /\ bRaised = NoExc

\* lines 32-56: the early returns, or the loop is entered
BatchEnter ==
    /\ bpc = "called"
    /\ IF ~query_valid \/ ~SCRAPE_FULL_ARTICLES \/ articles = <<>>
       THEN bpc' = "returned" /\ bReturned' = articles
       ELSE bpc' = "loop" /\ bReturned' = bReturned
    /\ UNCHANGED <<articles, given, query_valid, SCRAPE_FULL_ARTICLES,
                   successful_scrapes, failed_scrapes, attempted, acquirable,
                   bRaised>>
    /\ UNCHANGED <<cbVars, retryVars, scrapeVars, decodeVars, concVars, resolveVars, seleniumVars, fetchVars>>

\* lines 62-92: one turn of the loop, for the next of the top articles
ProcessArticle(out) ==
    LET i == Len(attempted) + 1
        r == CallScrapeFullArticle(ArgumentsPassed, out)
    IN  /\ bpc = "loop"
        /\ i <= Len(TopArticles(articles))
        /\ attempted' = Append(attempted, articles[i].serial_number)
        /\ acquirable' = Append(acquirable, out)
        /\ IF r.kind = "returns"
           THEN /\ IF r.value # None
                   THEN /\ articles' = [articles EXCEPT ![i].full = TRUE]
                        /\ successful_scrapes' = successful_scrapes + 1
                        /\ UNCHANGED failed_scrapes
                   ELSE /\ failed_scrapes' = failed_scrapes + 1
                        /\ UNCHANGED <<articles, successful_scrapes>>
                /\ UNCHANGED <<bpc, bRaised>>
           ELSE IF BatchCatches(r.exc)
           THEN /\ failed_scrapes' = failed_scrapes + 1
                /\ UNCHANGED <<articles, successful_scrapes, bpc, bRaised>>
           ELSE /\ bpc' = "raised" /\ bRaised' = r.exc
                /\ UNCHANGED <<articles, successful_scrapes, failed_scrapes>>
        /\ UNCHANGED <<given, query_valid, SCRAPE_FULL_ARTICLES, bReturned>>
        /\ UNCHANGED <<cbVars, retryVars, scrapeVars, decodeVars, concVars, resolveVars, seleniumVars, fetchVars>>

\* lines 94-95: the loop is over
BatchReturn ==
    /\ bpc = "loop"
    /\ Len(attempted) = Len(TopArticles(articles))
    /\ bpc' = "returned"
    /\ bReturned' = articles
    /\ UNCHANGED <<articles, given, query_valid, SCRAPE_FULL_ARTICLES,
                   successful_scrapes, failed_scrapes, attempted, acquirable,
                   bRaised>>
    /\ UNCHANGED <<cbVars, retryVars, scrapeVars, decodeVars, concVars, resolveVars, seleniumVars, fetchVars>>

BatchNext ==
    \/ BatchEnter
    \/ \E out \in AcquisitionOutcomes : ProcessArticle(out)
    \/ BatchReturn

SpecBatch == BatchInit /\ [][BatchNext]_vars

--------------------------------------------------------------------------
(* SpecConc: one CircuitBreaker shared by threads that call call() with   *)
(* no lock (retry_utils.py:26-52).  A thread runs call() a statement at a *)
(* time, `failure_count += 1` as a read and a write, and the threads'     *)
(* steps interleave.                                                      *)

Callers == 1..MaxCallers

ConcIdleThreads ==
    /\ tpc = [t \in Callers |-> "idle"]
    /\ held = [t \in Callers |-> 0]
    /\ fails = [t \in Callers |-> FALSE]
    /\ admitted = [t \in Callers |-> "none"]
    /\ calls = [t \in Callers |-> 0]
    /\ failed = [t \in Callers |-> 0]
    /\ rejected = [t \in Callers |-> 0]

ConcInit ==
    /\ FetchIdle
    /\ SeleniumIdle
    /\ ResolveIdle
    /\ CBIdle
    /\ RetryIdle
    /\ ScrapeIdle
    /\ BatchIdle
    /\ DecodeIdle
    /\ \E T \in 1..MaxThreshold : shared = CircuitBreaker(T, 1)
    /\ clock = 1
    /\ ConcIdleThreads

\* time passes
ConcTick ==
    /\ clock < MaxConcTime
    /\ clock' = clock + 1
    /\ UNCHANGED <<shared, tpc, held, fails, admitted, calls, failed, rejected>>

\* thread t calls call() with an operation that will raise or return
ConcCall(t, opFails) ==
    /\ tpc[t] = "idle"
    /\ calls[t] < MaxConcCalls
    /\ calls' = [calls EXCEPT ![t] = @ + 1]
    /\ fails' = [fails EXCEPT ![t] = opFails]
    /\ admitted' = [admitted EXCEPT ![t] = "none"]
    /\ tpc' = [tpc EXCEPT ![t] = "l28"]
    /\ UNCHANGED <<shared, clock, held, failed, rejected>>

\* line 28: if self.state == "OPEN"
Line28(t) ==
    /\ tpc[t] = "l28"
    /\ IF shared.state = "OPEN"
       THEN tpc' = [tpc EXCEPT ![t] = "l29"] /\ UNCHANGED admitted
       ELSE /\ tpc' = [tpc EXCEPT ![t] = "l35"]
            /\ admitted' = [admitted EXCEPT ![t] = shared.state]
    /\ UNCHANGED <<shared, clock, held, fails, calls, failed, rejected>>

\* lines 29 and 32: the recovery test, and the rejection
Line29(t) ==
    /\ tpc[t] = "l29"
    /\ IF RecoveryElapsed(shared, clock)
       THEN tpc' = [tpc EXCEPT ![t] = "l30"] /\ UNCHANGED rejected
       ELSE /\ tpc' = [tpc EXCEPT ![t] = "idle"]
            /\ rejected' = [rejected EXCEPT ![t] = @ + 1]
    /\ UNCHANGED <<shared, clock, held, fails, admitted, calls, failed>>

\* line 30: self.state = "HALF_OPEN"
Line30(t) ==
    /\ tpc[t] = "l30"
    /\ shared' = [shared EXCEPT !.state = "HALF_OPEN"]
    /\ admitted' = [admitted EXCEPT ![t] = "TRIAL"]
    /\ tpc' = [tpc EXCEPT ![t] = "l35"]
    /\ UNCHANGED <<clock, held, fails, calls, failed, rejected>>

\* line 35: the operation is invoked
Line35(t) ==
    /\ tpc[t] = "l35"
    /\ tpc' = [tpc EXCEPT ![t] = "running"]
    /\ UNCHANGED <<shared, clock, held, fails, admitted, calls, failed, rejected>>

\* lines 35-39: the operation returns or raises
OperationEnds(t) ==
    /\ tpc[t] = "running"
    /\ tpc' = [tpc EXCEPT ![t] = IF fails[t] THEN "l49r" ELSE "l44"]
    /\ failed' = [failed EXCEPT ![t] = IF fails[t] THEN @ + 1 ELSE @]
    /\ UNCHANGED <<shared, clock, held, fails, admitted, calls, rejected>>

\* line 44: self.failure_count = 0
Line44(t) ==
    /\ tpc[t] = "l44"
    /\ shared' = [shared EXCEPT !.failure_count = 0]
    /\ tpc' = [tpc EXCEPT ![t] = "l45"]
    /\ UNCHANGED <<clock, held, fails, admitted, calls, failed, rejected>>

\* line 45: self.state = "CLOSED", and call() returns
Line45(t) ==
    /\ tpc[t] = "l45"
    /\ shared' = [shared EXCEPT !.state = "CLOSED"]
    /\ tpc' = [tpc EXCEPT ![t] = "idle"]
    /\ UNCHANGED <<clock, held, fails, admitted, calls, failed, rejected>>

\* line 49, self.failure_count += 1: the read
Line49Read(t) ==
    /\ tpc[t] = "l49r"
    /\ held' = [held EXCEPT ![t] = shared.failure_count]
    /\ tpc' = [tpc EXCEPT ![t] = "l49w"]
    /\ UNCHANGED <<shared, clock, fails, admitted, calls, failed, rejected>>

\* line 49, self.failure_count += 1: the write
Line49Write(t) ==
    /\ tpc[t] = "l49w"
    /\ shared' = [shared EXCEPT !.failure_count = held[t] + 1]
    /\ held' = [held EXCEPT ![t] = 0]
    /\ tpc' = [tpc EXCEPT ![t] = "l50"]
    /\ UNCHANGED <<clock, fails, admitted, calls, failed, rejected>>

\* line 50: self.last_failure_time = time.time()
Line50(t) ==
    /\ tpc[t] = "l50"
    /\ shared' = [shared EXCEPT !.last_failure_time = clock]
    /\ tpc' = [tpc EXCEPT ![t] = "l51"]
    /\ UNCHANGED <<clock, held, fails, admitted, calls, failed, rejected>>

\* line 51: the threshold test; below it call() raises e (line 40)
Line51(t) ==
    /\ tpc[t] = "l51"
    /\ tpc' = [tpc EXCEPT ![t] =
                 IF shared.failure_count >= shared.failure_threshold
                 THEN "l52" ELSE "idle"]
    /\ UNCHANGED <<shared, clock, held, fails, admitted, calls, failed, rejected>>

\* line 52: self.state = "OPEN", and call() raises e (line 40)
Line52(t) ==
    /\ tpc[t] = "l52"
    /\ shared' = [shared EXCEPT !.state = "OPEN"]
    /\ tpc' = [tpc EXCEPT ![t] = "idle"]
    /\ UNCHANGED <<clock, held, fails, admitted, calls, failed, rejected>>

ConcStep(t) ==
    \/ \E opFails \in BOOLEAN : ConcCall(t, opFails)
    \/ Line28(t)
    \/ Line29(t)
    \/ Line30(t)
    \/ Line35(t)
    \/ OperationEnds(t)
    \/ Line44(t)
    \/ Line45(t)
    \/ Line49Read(t)
    \/ Line49Write(t)
    \/ Line50(t)
    \/ Line51(t)
    \/ Line52(t)

ConcNext ==
    \/ ConcTick /\ UNCHANGED <<cbVars, retryVars, scrapeVars, decodeVars, batchVars, resolveVars, seleniumVars, fetchVars>>
    \/ \E t \in Callers :
          ConcStep(t) /\ UNCHANGED <<cbVars, retryVars, scrapeVars, decodeVars, batchVars, resolveVars, seleniumVars, fetchVars>>

SpecConc == ConcInit /\ [][ConcNext]_vars

--------------------------------------------------------------------------
(* SpecResolve: one call of url_resolver.resolve_google_news_url (lines   *)
(* 13-91) against a server that answers every request as it likes.       *)

max_redirects == 10

\* a response: its status and its Location header (None when absent)
Response(status_code, location) ==
    [status_code |-> status_code, location |-> location]

NoResponse == Response(0, None)

\* a Location header that starts with "/", and one that starts neither
\* with "/" nor with "http"
RootedLocation == Url("", "", "/moved", FALSE)
RelativeLocation == Url("", "", "next", FALSE)

ResolveUrls == {GNewsUrl, ConsentUrl, PublisherUrl}

LocationHeaders == ResolveUrls \cup {RootedLocation, RelativeLocation, None}

\* what a server can answer
ServerResponses ==
    {Response(s, l) : s \in {200, 302}, l \in LocationHeaders}

\* requests' Response.is_redirect: a Location header and a redirect status
is_redirect(r) ==
    r.location # None /\ r.status_code \in {301, 302, 303, 307, 308}

\* line 44, the loop's condition
LoopCondition(r) ==
    is_redirect(r) \/ r.status_code \in {301, 302, 303, 307, 308}

\* urljoin(base, "next") for a base whose path has one segment
urljoin(base, ref) == Url(base.scheme, base.netloc, "/" \o ref.rest, FALSE)

\* location.startswith('/') and location.startswith('http'), for the
\* headers of LocationHeaders
StartsWithSlash(location) == location = RootedLocation
StartsWithHttp(location) == location.scheme \in {"http", "https"}

\* lines 55-59
ResolveLocation(current, location) ==
    IF StartsWithSlash(location)
        THEN Url(current.scheme, current.netloc, location.rest, FALSE)
    ELSE IF ~StartsWithHttp(location)
        THEN urljoin(current, location)
    ELSE location

ResolveInit ==
    /\ FetchIdle
    /\ SeleniumIdle
    /\ CBIdle
    /\ RetryIdle
    /\ ScrapeIdle
    /\ DecodeIdle
    /\ BatchIdle
    /\ ConcIdle
    /\ vpc = "called"
    /\ google_news_url \in {GNewsUrl, PublisherUrl}
    /\ current_url = None
    /\ last_response = NoResponse
    /\ redirect_count = 0 /\ followed = 0 /\ head_failed = 0
    /\ vResult = None

\* lines 37-42: the first HEAD request is answered
FirstHead(r) ==
    /\ vpc = "called"
    /\ last_response' = r
    /\ redirect_count' = 0
    /\ current_url' = google_news_url
    /\ vpc' = "loop"
    /\ UNCHANGED <<google_news_url, followed, head_failed, vResult>>

\* lines 37, 81-91: the first HEAD request raises; a GET that follows
\* redirects by itself gives response.url, or raises and the argument is
\* returned
FirstHeadRaises(get) ==
    /\ vpc = "called"
    /\ vResult' = IF get.kind = "returns" THEN get.url ELSE google_news_url
    /\ vpc' = "returned"
    /\ UNCHANGED <<google_news_url, current_url, last_response,
                   redirect_count, followed, head_failed>>

\* lines 44-52, 78-79: the loop ends and current_url is returned
LoopEnds ==
    /\ vpc = "loop"
    /\ \/ ~LoopCondition(last_response)
       \/ redirect_count >= max_redirects
       \/ Falsy(last_response.location)
    /\ vResult' = current_url
    /\ vpc' = "returned"
    /\ UNCHANGED <<google_news_url, current_url, last_response,
                   redirect_count, followed, head_failed>>

\* the loop takes the Location header: lines 44-61
TakesLocation ==
    /\ vpc = "loop"
    /\ LoopCondition(last_response)
    /\ redirect_count < max_redirects
    /\ ~Falsy(last_response.location)
    /\ followed < MaxFollowed
    /\ current_url' = ResolveLocation(current_url, last_response.location)
    /\ followed' = followed + 1

\* lines 66-67: the HEAD request to the new location is answered
HeadAnswered(r) ==
    /\ TakesLocation
    /\ last_response' = r
    /\ redirect_count' = redirect_count + 1
    /\ UNCHANGED <<vpc, google_news_url, head_failed, vResult>>

\* lines 68-72: the HEAD request raises and the GET request is answered
HeadRaisesGetAnswered(r) ==
    /\ TakesLocation
    /\ last_response' = r
    /\ head_failed' = head_failed + 1
    /\ UNCHANGED <<vpc, google_news_url, redirect_count, vResult>>

\* lines 68-75, 78-79: both requests raise, the loop is left
HeadAndGetRaise ==
    /\ TakesLocation
    /\ head_failed' = head_failed + 1
    /\ vResult' = current_url'
    /\ vpc' = "returned"
    /\ UNCHANGED <<google_news_url, last_response, redirect_count>>

ResolveNext ==
    \/ \E r \in ServerResponses :
          FirstHead(r) /\ UNCHANGED <<cbVars, retryVars, scrapeVars, decodeVars, batchVars, concVars, seleniumVars, fetchVars>>
    \/ \E get \in ResolverOutcomes(google_news_url) :
          FirstHeadRaises(get) /\ UNCHANGED <<cbVars, retryVars, scrapeVars, decodeVars, batchVars, concVars, seleniumVars, fetchVars>>
    \/ LoopEnds /\ UNCHANGED <<cbVars, retryVars, scrapeVars, decodeVars, batchVars, concVars, seleniumVars, fetchVars>>
    \/ \E r \in ServerResponses :
          HeadAnswered(r) /\ UNCHANGED <<cbVars, retryVars, scrapeVars, decodeVars, batchVars, concVars, seleniumVars, fetchVars>>
    \/ \E r \in ServerResponses :
          HeadRaisesGetAnswered(r) /\ UNCHANGED <<cbVars, retryVars, scrapeVars, decodeVars, batchVars, concVars, seleniumVars, fetchVars>>
    \/ HeadAndGetRaise /\ UNCHANGED <<cbVars, retryVars, scrapeVars, decodeVars, batchVars, concVars, seleniumVars, fetchVars>>

SpecResolve == ResolveInit /\ [][ResolveNext]_vars

--------------------------------------------------------------------------
(* SpecRetryGuarded: the wrapper of retry_with_backoff when the decorator *)
(* was given a circuit_breaker (retry_utils.py:89-94), called up to       *)
(* MaxCalls times on the operation of SpecRetry.  The breaker is cb, the  *)
(* clock is now, nCalls counts the calls of the wrapper.                  *)

GuardedPolicies ==
    {p \in Policies : /\ p.base_delay = 1000 /\ p.max_delay = 60000
                      /\ p.exponential_base = 2 /\ p.rate_limit_delay = 10000}

GuardedInit ==
    /\ FetchIdle
    /\ SeleniumIdle
    /\ ScrapeIdle
    /\ DecodeIdle
    /\ BatchIdle
    /\ ConcIdle
    /\ ResolveIdle
    /\ policy \in GuardedPolicies
    /\ script \in Scripts
    /\ attempt = 0 /\ rpc = "idle" /\ invocations = 0
    /\ errs = <<>> /\ sleeps = <<>>
    /\ rResult = "none" /\ rRaised = NoExc
    /\ \E T \in 1..MaxThreshold : cb = CircuitBreaker(T, 1)
    /\ now = 1
    /\ lastCall = NoCall
    /\ nCalls = 0 /\ nFailing = 0 /\ nInvoked = 0 /\ nReraised = 0
    /\ trialFailed = NoTime

\* the decorated function is called
WrapperCalled ==
    /\ rpc # "running"
    /\ nCalls < MaxCalls
    /\ nCalls' = nCalls + 1
    /\ rpc' = "running"
    /\ rResult' = "none"
    /\ rRaised' = NoExc
    /\ UNCHANGED <<policy, script, attempt, invocations, errs, sleeps>>
    /\ UNCHANGED <<cb, now, lastCall, nFailing, nInvoked, nReraised, trialFailed>>

\* lines 91-94, the breaker lets the call through and func returns
GuardedReturns ==
    /\ rpc = "running"
    /\ Admits(cb, now)
    /\ Raises(invocations + 1) = {}
    /\ invocations' = invocations + 1
    /\ cb' = _on_success(Entered(cb, now))
    /\ rResult' = Return(OpValue)
    /\ rpc' = "returned"
    /\ UNCHANGED <<policy, script, attempt, errs, sleeps, rRaised>>
    /\ UNCHANGED <<now, lastCall, nCalls, nFailing, nInvoked, nReraised, trialFailed>>

\* lines 91-94, the breaker lets the call through and func raises e: call()
\* re-raises it and the wrapper has no handler
GuardedRaises(e) ==
    /\ rpc = "running"
    /\ Admits(cb, now)
    /\ invocations' = invocations + 1
    /\ cb' = _on_failure(Entered(cb, now), now)
    /\ rRaised' = Reraise(e)
    /\ rpc' = "raised"
    /\ UNCHANGED <<policy, script, attempt, errs, sleeps, rResult>>
    /\ UNCHANGED <<now, lastCall, nCalls, nFailing, nInvoked, nReraised, trialFailed>>

\* lines 91-94, the breaker is OPEN and rejects the call
GuardedRejected ==
    /\ rpc = "running"
    /\ ~Admits(cb, now)
    /\ rRaised' = CircuitBreakerOpenException
    /\ rpc' = "raised"
    /\ UNCHANGED <<policy, script, attempt, invocations, errs, sleeps, rResult>>
    /\ UNCHANGED <<cb, now, lastCall, nCalls, nFailing, nInvoked, nReraised, trialFailed>>

GuardedNext ==
    \/ WrapperCalled /\ UNCHANGED <<scrapeVars, decodeVars, batchVars, concVars, resolveVars, seleniumVars, fetchVars>>
    \/ GuardedReturns /\ UNCHANGED <<scrapeVars, decodeVars, batchVars, concVars, resolveVars, seleniumVars, fetchVars>>
    \/ \E e \in Raises(invocations + 1) :
          GuardedRaises(e) /\ UNCHANGED <<scrapeVars, decodeVars, batchVars, concVars, resolveVars, seleniumVars, fetchVars>>
    \/ GuardedRejected /\ UNCHANGED <<scrapeVars, decodeVars, batchVars, concVars, resolveVars, seleniumVars, fetchVars>>
    \/ (rpc # "running" /\ Tick) /\ UNCHANGED <<retryVars, scrapeVars, decodeVars, batchVars, concVars, resolveVars, seleniumVars, fetchVars>>

SpecRetryGuarded == GuardedInit /\ [][GuardedNext]_vars

--------------------------------------------------------------------------
(* SpecSelenium: resolve_google_news_url_with_selenium (utils.py:163-190) *)
(* called up to MaxSeleniumCalls times; the module's breaker is           *)
(* selenium_circuit_breaker and the clock is now.                         *)

SeleniumInputs == {GNewsUrl, GNewsHttpUrl, NoSchemeUrl}

SeleniumInit ==
    /\ FetchIdle
    /\ CBIdle
    /\ RetryIdle
    /\ ScrapeIdle
    /\ DecodeIdle
    /\ BatchIdle
    /\ ConcIdle
    /\ ResolveIdle
    /\ sCalls = 0 /\ sFailures = 0
    /\ sArgument = None /\ sLaunched = FALSE /\ sReturned = None

\* one call, where the browser would do s
SeleniumCall(u, s) ==
    LET r == resolve_google_news_url_with_selenium(u, selenium_circuit_breaker, now, s)
    IN  /\ sCalls < MaxSeleniumCalls
        /\ sCalls' = sCalls + 1
        /\ selenium_circuit_breaker' = r.cb
        /\ sArgument' = u
        /\ sLaunched' = r.launched
        /\ sReturned' = r.url
        /\ sFailures' = IF ~r.launched THEN sFailures
                        ELSE IF s.kind = "final" THEN 0
                        ELSE sFailures + 1
        /\ UNCHANGED <<spc, article_url, real_url, article_data, result, handled,
                       scraper_cb, trail, browser, decoded_by, nAcq>>
        /\ UNCHANGED cbVars

SeleniumNext ==
    \/ \E u \in SeleniumInputs : \E s \in BrowserOutcomes(u) :
          SeleniumCall(u, s) /\ UNCHANGED <<retryVars, decodeVars, batchVars, concVars, resolveVars, fetchVars>>
    \/ Tick /\ UNCHANGED <<retryVars, scrapeVars, decodeVars, batchVars, concVars, resolveVars, seleniumVars, fetchVars>>

SpecSelenium == SeleniumInit /\ [][SeleniumNext]_vars

--------------------------------------------------------------------------
(* SpecFetch: one call of scrape_article_with_readability or of            *)
(* scrape_article_simplified (article_scraper.py:240-257, 338-355) on a   *)
(* fresh ArticleScraper, against a URL whose first fetch_fails GET        *)
(* requests raise ConnectionError.  The tier's inner function and          *)
(* _fetch_with_requests are both decorated with retry_for_network; the     *)
(* breaker is scraper_cb and the clock is now.                             *)

\* retry_utils.py:144-149
retry_for_network ==
    [max_retries |-> 3, base_delay |-> 1000, max_delay |-> 60000,
     exponential_base |-> 2, jitter |-> TRUE, rate_limit_delay |-> 15000]

\* what requests.get raises at the id-th request
FetchError(id) == Exc("ConnectionError", 0, id)

FetchInit ==
    /\ CBIdle
    /\ RetryIdle
    /\ ScrapeIdle
    /\ DecodeIdle
    /\ BatchIdle
    /\ ConcIdle
    /\ ResolveIdle
    /\ SeleniumIdle
    /\ fpc = "fetching"
    /\ fTier \in {2, 3}
    /\ fetch_fails \in 0..MaxFetchFails
    /\ outer_attempt = 0 /\ inner_attempt = 0 /\ request_count = 0
    /\ fData = None

\* the tier's inner function on the page fetched
TierInner(url, o) ==
    IF fTier = 2 THEN _scrape_with_readability(url, o)
    ELSE _scrape_with_simplified_parsing(url, o)

\* lines 159-169: requests.get raises
GetRaises ==
    /\ fpc = "fetching"
    /\ request_count < fetch_fails
    /\ Caught(FetchError(request_count + 1))
    /\ request_count' = request_count + 1

\* the wrapper of _fetch_with_requests sleeps and tries again
FetchRetried ==
    /\ GetRaises
    /\ ~LastAttempt(retry_for_network, inner_attempt)
    /\ inner_attempt' = inner_attempt + 1
    /\ UNCHANGED <<fpc, fTier, fetch_fails, outer_attempt, fData>>
    /\ UNCHANGED scrapeVars

\* the wrapper of _fetch_with_requests raises the error of its last
\* attempt; the wrapper of the tier's inner function catches it, sleeps
\* and calls the inner function again
TierRetried ==
    /\ GetRaises
    /\ LastAttempt(retry_for_network, inner_attempt)
    /\ ~LastAttempt(retry_for_network, outer_attempt)
    /\ outer_attempt' = outer_attempt + 1
    /\ inner_attempt' = 0
    /\ UNCHANGED <<fpc, fTier, fetch_fails, fData>>
    /\ UNCHANGED scrapeVars

\* both wrappers are at their last attempt: the error reaches
\* CircuitBreaker.call and the tier answers None (lines 255-257, 353-355)
TierGivesUp ==
    LET e == FinalRaise(FinalRaise(FetchError(request_count + 1)))
        r == GuardedTier(scraper_cb, now, RaisesExc(e))
    IN  /\ GetRaises
        /\ LastAttempt(retry_for_network, inner_attempt)
        /\ LastAttempt(retry_for_network, outer_attempt)
        /\ scraper_cb' = r.cb
        /\ fData' = r.data
        /\ fpc' = "gave_up"
        /\ UNCHANGED <<fTier, fetch_fails, outer_attempt, inner_attempt>>
        /\ UNCHANGED <<spc, article_url, real_url, article_data, result, handled,
                       selenium_circuit_breaker, trail, browser, decoded_by, nAcq>>

\* requests.get answers and the inner function goes on with the page
TierFetched(o) ==
    LET r == GuardedTier(scraper_cb, now, TierInner(PublisherUrl, o))
    IN  /\ fpc = "fetching"
        /\ request_count >= fetch_fails
        /\ o.kind = "fetched"
        /\ request_count' = request_count + 1
        /\ scraper_cb' = r.cb
        /\ fData' = r.data
        /\ fpc' = "done"
        /\ UNCHANGED <<fTier, fetch_fails, outer_attempt, inner_attempt>>
        /\ UNCHANGED <<spc, article_url, real_url, article_data, result, handled,
                       selenium_circuit_breaker, trail, browser, decoded_by, nAcq>>

FetchNext ==
    \/ FetchRetried /\ UNCHANGED <<cbVars, retryVars, decodeVars, batchVars, concVars, resolveVars, seleniumVars>>
    \/ TierRetried /\ UNCHANGED <<cbVars, retryVars, decodeVars, batchVars, concVars, resolveVars, seleniumVars>>
    \/ TierGivesUp /\ UNCHANGED <<cbVars, retryVars, decodeVars, batchVars, concVars, resolveVars, seleniumVars>>
    \/ \E o \in FetchOutcomes :
          TierFetched(o) /\ UNCHANGED <<cbVars, retryVars, decodeVars, batchVars, concVars, resolveVars, seleniumVars>>

SpecFetch == FetchInit /\ [][FetchNext]_vars

--------------------------------------------------------------------------
(* Properties of the circuit breaker (SpecCB) *)

\* C1: from a fresh breaker, after failure_threshold consecutive calls whose
\* operation raises, the state is OPEN and each of those calls invoked the
\* operation and re-raised its exception; a call made while OPEN and
\* now - last_failure_time <= recovery_timeout raises
\* CircuitBreakerOpenException without invoking the operation and leaves
\* state, failure_count and last_failure_time as they were.
C1_OpensAtThresholdThenRejects ==
    /\ (nCalls = cb.failure_threshold /\ nFailing = nCalls) =>
          /\ cb.state = "OPEN"
          /\ nInvoked = nCalls
          /\ nReraised = nCalls
          /\ cb.failure_count = nCalls
    /\ (nCalls > 0 /\ lastCall.pre.state = "OPEN"
          /\ lastCall.t - lastCall.pre.last_failure_time
                <= lastCall.pre.recovery_timeout) =>
          /\ ~lastCall.invoked
          /\ lastCall.outcome = "raised"
          /\ lastCall.raised = CircuitBreakerOpenException
          /\ cb = lastCall.pre

\* the breaker opened at a threshold above 1 and then rejected a failing call
C1_Witness ==
    /\ cb.failure_threshold = MaxThreshold
    /\ nCalls = cb.failure_threshold + 1
    /\ nFailing = nCalls
    /\ nInvoked = cb.failure_threshold
    /\ lastCall.raised = CircuitBreakerOpenException
    /\ cb.state = "OPEN"

\* C2: a call made while OPEN with now - last_failure_time > recovery_timeout
\* invokes the operation with the breaker HALF_OPEN; if the operation
\* returns, call() returns its result and the breaker is CLOSED with
\* failure_count 0.
C2_TrialSuccessCloses ==
    (nCalls > 0 /\ lastCall.pre.state = "OPEN"
       /\ lastCall.t - lastCall.pre.last_failure_time
             > lastCall.pre.recovery_timeout) =>
       /\ lastCall.invoked
       /\ lastCall.during = "HALF_OPEN"
       /\ ~lastCall.opFails =>
             /\ lastCall.outcome = "returned"
             /\ lastCall.returned = OpResult
             /\ cb.state = "CLOSED"
             /\ cb.failure_count = 0

\* a trial call succeeded after the timeout and closed the breaker
C2_Witness ==
    /\ lastCall.pre.state = "OPEN"
    /\ lastCall.pre.failure_count >= 2
    /\ lastCall.during = "HALF_OPEN"
    /\ lastCall.outcome = "returned"
    /\ cb.state = "CLOSED"

\* C3: when the HALF_OPEN trial's operation raises, the breaker is OPEN again
\* with failure_count >= failure_threshold and last_failure_time the time of
\* the trial failure, call() raises the operation's own exception, and no
\* operation is invoked until more than recovery_timeout after that failure.
C3_TrialFailureReopens ==
    /\ (lastCall.during = "HALF_OPEN" /\ lastCall.opFails) =>
          /\ cb.state = "OPEN"
          /\ cb.failure_count >= cb.failure_threshold
          /\ cb.last_failure_time = lastCall.tEnd
          /\ lastCall.outcome = "raised"
          /\ lastCall.raised = lastCall.opExc
    /\ (lastCall.invoked /\ lastCall.trialFailedBefore # NoTime) =>
          lastCall.t - lastCall.trialFailedBefore > cb.recovery_timeout

\* after one failed trial, a second trial ran a full timeout later and failed
C3_Witness ==
    /\ lastCall.trialFailedBefore # NoTime
    /\ lastCall.invoked
    /\ lastCall.during = "HALF_OPEN"
    /\ lastCall.opFails
    /\ cb.failure_threshold >= 2

--------------------------------------------------------------------------
(* Properties of the retry wrapper (SpecRetry) *)

Finished == rpc \in {"returned", "raised"}

\* C4: an operation that raises a retryable error on every attempt is
\* invoked exactly max_retries + 1 times, the wrapper sleeps exactly
\* max_retries times and then raises the exception object of the final
\* attempt.
C4_ExhaustedRetriesReraise ==
    script.fails > policy.max_retries =>
       /\ invocations <= policy.max_retries + 1
       /\ Len(sleeps) <= policy.max_retries
       /\ Finished =>
             /\ rpc = "raised"
             /\ invocations = policy.max_retries + 1
             /\ Len(sleeps) = policy.max_retries
             /\ Len(errs) = invocations
             /\ rRaised = errs[Len(errs)]
             /\ rRaised.id = invocations

\* three retries were used up and the fourth attempt's exception was raised
C4_Witness ==
    /\ policy.max_retries = MaxRetries
    /\ script.fails > policy.max_retries
    /\ rpc = "raised"
    /\ Len(sleeps) = MaxRetries

\* C5: an operation that raises a retryable error on its first k <=
\* max_retries attempts and then returns v makes the wrapper return v after
\* exactly k + 1 invocations, and no exception reaches the caller.
C5_SucceedsAfterFailures ==
    (script.fails <= policy.max_retries /\ script.then = "returns") =>
       /\ rpc # "raised"
       /\ rRaised = NoExc
       /\ invocations <= script.fails + 1
       /\ Finished =>
             /\ rResult = OpValue
             /\ invocations = script.fails + 1
             /\ Len(sleeps) = script.fails

\* the test's case: max_retries = 3, two failures, success on attempt 3
C5_Witness ==
    /\ policy.max_retries = 3
    /\ script.fails = 2
    /\ rpc = "returned"
    /\ invocations = 3
    /\ errs[1].cls = "ConnectionError" /\ errs[2].cls = "ConnectionError"

\* C6: without jitter, the delay slept after the n-th failed attempt (n from
\* 0) with an error that is not a rate-limit error is
\* min(base_delay * exponential_base^n, max_delay); with base_delay 1 s,
\* exponential_base 2 and max_delay 60 s the delays are 1, 2, 4 s, never
\* decrease and never exceed max_delay.
C6_ExponentialDelays ==
    ~policy.jitter =>
       /\ \A i \in 1..Len(sleeps) :
             ~is_rate_limit_error(errs[i]) =>
                /\ sleeps[i] = Min(policy.base_delay
                                     * Pow(policy.exponential_base, i - 1),
                                   policy.max_delay)
                /\ sleeps[i] <= policy.max_delay
       /\ ( /\ policy.base_delay = 1000 /\ policy.exponential_base = 2
            /\ policy.max_delay = 60000
            /\ \A i \in 1..Len(sleeps) : ~is_rate_limit_error(errs[i]) ) =>
             /\ Len(sleeps) >= 1 => sleeps[1] = 1000
             /\ Len(sleeps) >= 2 => sleeps[2] = 2000
             /\ Len(sleeps) >= 3 => sleeps[3] = 4000
             /\ \A i, j \in 1..Len(sleeps) : i <= j => sleeps[i] <= sleeps[j]

\* the delays 1, 2, 4 s were slept before attempts 2, 3, 4
C6_Witness ==
    /\ ~policy.jitter
    /\ policy.base_delay = 1000 /\ policy.exponential_base = 2
    /\ policy.max_delay = 60000
    /\ sleeps = <<1000, 2000, 4000>>

\* C7: after a failed non-final attempt whose error is a rate-limit error
\* (HTTP status 429) the delay slept is exactly rate_limit_delay, whatever
\* the attempt number, jitter, base_delay, exponential_base and max_delay.
C7_RateLimitDelay ==
    \A i \in 1..Len(sleeps) :
       is_rate_limit_error(errs[i]) => sleeps[i] = policy.rate_limit_delay

\* with jitter on and max_delay below rate_limit_delay, a 429 on the third
\* attempt was followed by a sleep of rate_limit_delay
C7_Witness ==
    /\ policy.jitter
    /\ policy.max_delay < policy.rate_limit_delay
    /\ Len(sleeps) = 3
    /\ is_rate_limit_error(errs[3])
    /\ ~is_rate_limit_error(errs[1])
    /\ sleeps[3] = policy.rate_limit_delay

\* C8: an error outside the retryable classes is propagated by the wrapper
\* at once: the same exception object, no sleep after it, no further
\* invocation of the operation, even when retry attempts remain.
C8_NonRetryablePropagates ==
    (script.then = "raises_other" /\ script.fails <= policy.max_retries) =>
       /\ invocations <= script.fails + 1
       /\ Len(sleeps) <= script.fails
       /\ Finished =>
             /\ rpc = "raised"
             /\ rRaised = OtherError(script.fails + 1)
             /\ invocations = script.fails + 1
             /\ Len(sleeps) = script.fails

\* a ValueError on the second attempt was raised with two retries still left
C8_Witness ==
    /\ script.then = "raises_other"
    /\ script.fails = 1
    /\ policy.max_retries = 3
    /\ rpc = "raised"
    /\ rRaised.cls = "ValueError"
    /\ attempt = 1

--------------------------------------------------------------------------
(* Properties of scrape_full_article (SpecScrape) *)

\* the value is a record a tier built
IsArticleRecord(v) == v # None /\ "text" \in DOMAIN v

\* C9: scrape_full_article never lets an exception out: whatever its
\* argument and whatever the decoders, the browser, the tiers, the breakers,
\* the image downloads and the file writers do, a finished acquisition has
\* returned an article record or None
C9_NeverPropagates ==
    /\ result.kind # "raises"
    /\ spc = "returned" =>
         /\ result.kind = "returns"
         /\ result.value = None \/ IsArticleRecord(result.value)

\* an acquisition whose Markdown writer raised after the links were
\* attached: the handlers answered the exception and None was returned
C9_Witness ==
    /\ spc = "returned"
    /\ handled.cls = "UnboundLocalError"
    /\ result = Returns(None)
    /\ article_data # None

\* C10: a returned article record carries both links: gnews_link is the
\* argument, decoded_url is the resolved URL every tier was run against,
\* and url is decoded_url
C10_RecordCarriesBothLinks ==
    (result.kind = "returns" /\ result.value # None) =>
        /\ result.value.gnews_link = article_url
        /\ result.value.decoded_url = real_url
        /\ \A i \in DOMAIN trail : trail[i].url = result.value.decoded_url
        /\ result.value.url = result.value.decoded_url

\* a record returned for an argument that was resolved to another URL,
\* built by the third tier
C10_Witness ==
    /\ result.kind = "returns" /\ result.value # None
    /\ real_url = PublisherUrl /\ article_url = GNewsUrl
    /\ Len(trail) = 3 /\ trail[3].outcome = "content"

\* C11: when gnewsdecoder and the fallback resolver gave nothing and the
\* browser failed or was not run, the URL resolved for a valid argument is
\* the argument itself, and the acquisition does not end before the tiers
\* were run against it
C11_DecodeFailureUsesOriginal ==
    decoded_by \in {"selenium_error", "selenium_not_run"} =>
        /\ real_url = article_url
        /\ spc \notin {"decode", "selenium"}
        /\ spc = "returned" => Len(trail) >= 1
        /\ \A i \in DOMAIN trail : trail[i].url = article_url

\* an acquisition whose browser raised and whose third tier then gave a
\* record from the argument's own URL
C11_Witness ==
    /\ decoded_by = "selenium_error" /\ browser
    /\ spc = "returned" /\ IsArticleRecord(result.value)
    /\ Len(trail) = 3 /\ result.value.url = article_url

--------------------------------------------------------------------------
(* Properties of google_news_url_decoder.decode_google_news_url           *)
(* (SpecDecode)                                                           *)

\* a non-empty string
NonEmptyString(v) ==
    v.type = "str" /\ "chars" \in DOMAIN v /\ v.chars # <<>>

\* C12: decode_google_news_url returns the source URL unchanged or a
\* non-empty string that batchexecute gave; whatever batchexecute answers,
\* it never returns an empty string, null or a value that is no string
C12_DecodedUrlNeverEmpty ==
    dpc = "returned" => (dResult = source_url \/ NonEmptyString(dResult))

\* the source URL is of a Google News host, its last directory is
\* articles or rss and its last segment is the URL-safe base64 of `plain`,
\* with or without the padding
EncodesPlain ==
    /\ IsArticlesUrl(source_url)
    /\ source_url.last \in {urlsafe_b64encode(plain),
                            rstrip_pad(urlsafe_b64encode(plain))}

\* C13: for a source URL whose last segment encodes a plaintext path,
\* decode_google_news_url returns that plaintext
C13_DirectDecodeRoundTrips ==
    (dpc = "returned" /\ EncodesPlain) => dResult = Str(plain)

\* the payload of the answer's envelope, where batchexecute puts it
Payload(response) == response.third[1][3]

\* C28: an answer whose data line is found by the marker and whose payload
\* holds the real URL makes the lookup return that URL
C28_MarkerLineGivesUrl ==
    (/\ dpc = "returned"
     /\ DataLineByMarker(answer)
     /\ Payload(answer) = Encoded(<<Str(<<103>>), JsonUrl>>)) =>
        dResult = JsonUrl

--------------------------------------------------------------------------
(* Properties of the three tiers (SpecScrape) *)

\* the trail entries of the tiers whose validation gate saw a text: the
\* breaker admitted the call and the page was fetched and parsed
Gated == {i \in DOMAIN trail : trail[i].kind \in {"parsed", "fetched"}}

\* C14: every article record returned by scrape_full_article has a text
\* that passed a minimum word count and holds no verification message,
\* whichever tier built it
C14_ReturnedTextPassedBothChecks ==
    (result.kind = "returns" /\ IsArticleRecord(result.value)) =>
        /\ result.value.text.words >= SIMPLIFIED_MIN_WORDS
        /\ ~has_verify_message(result.value.text)

\* C15: in the readability tier and in the simplified tier, a cleaned text
\* holding "are you human" in any letter case gives no content, whatever
\* its word count
C15_VerificationTextRejected ==
    \A i \in Gated :
        (trail[i].tier \in {2, 3} /\ lower(trail[i].text.phrase) = "are you human")
            => trail[i].outcome # "content"

\* C16: for a cleaned text with no verification message, the readability
\* tier gives no content exactly when the text has fewer than 100 words and
\* the simplified tier exactly when it has fewer than 50
C16_TierSpecificFloors ==
    \A i \in Gated :
        ~has_verify_message(trail[i].text) =>
            /\ trail[i].tier = 2 =>
                 (trail[i].outcome # "content"
                    <=> trail[i].text.words < READABILITY_MIN_WORDS)
            /\ trail[i].tier = 3 =>
                 (trail[i].outcome # "content"
                    <=> trail[i].text.words < SIMPLIFIED_MIN_WORDS)

\* an 80-word text refused by the readability tier and taken by the
\* simplified tier
C16_Witness ==
    /\ Len(trail) = 3
    /\ trail[2].kind = "fetched" /\ trail[2].text = [words |-> 80, phrase |-> ""]
    /\ trail[2].outcome # "content"
    /\ trail[3].kind = "fetched" /\ trail[3].text = [words |-> 80, phrase |-> ""]
    /\ trail[3].outcome = "content"

\* C17: the tiers run in the order newspaper, readability, simplified; a
\* tier is called only when every tier before it gave no content, and the
\* record returned is what the first tier with content built
C17_TiersSequentialFirstWins ==
    /\ \A i \in DOMAIN trail : trail[i].tier = i
    /\ \A i \in DOMAIN trail : i < Len(trail) => trail[i].outcome # "content"
    /\ (result.kind = "returns" /\ IsArticleRecord(result.value)) =>
          /\ trail # <<>>
          /\ trail[Len(trail)].outcome = "content"
          /\ result.value.text = trail[Len(trail)].text

\* a record built by the readability tier after the newspaper tier raised;
\* the simplified tier was not called
C17_Witness ==
    /\ spc = "returned" /\ IsArticleRecord(result.value)
    /\ Len(trail) = 2 /\ trail[1].outcome = "raised"
    /\ trail[2].outcome = "content"

\* a page that was fetched and whose cleaned text the tier's own checks
\* refuse: lines 196-204 and 314-316
ValidationReject(e) ==
    /\ e.kind = "fetched"
    /\ \/ /\ e.tier = 2
          /\ \/ e.text.words < READABILITY_MIN_WORDS
             \/ has_verify_message(e.text)
       \/ e.tier = 3 /\ e.text.words < SIMPLIFIED_MIN_WORDS

\* C23: a text refused by a tier's checks makes the tier's inner function
\* return the reject value, not raise, and the call through the breaker
\* counts as a success: failure_count is not incremented
C23_RejectIsNotAnError ==
    /\ \A i \in DOMAIN trail :
          ValidationReject(trail[i]) => trail[i].outcome = "reject"
    /\ (trail # <<>> /\ ValidationReject(trail[Len(trail)])) =>
          scraper_cb.failure_count = 0

\* the host of the aggregator
AggregatorHost(url) == url.netloc = GNewsUrl.netloc

\* C24: when the redirect-follow of decode_google_news_url gave the URL,
\* the browser was launched if that URL is still on the aggregator's host
\* and was not launched if it is on another host
C24_BrowserIffStillOnAggregator ==
    (spc \notin {"idle", "decode", "selenium"} /\ decoded_by = "fallback_resolver") =>
        (browser <=> AggregatorHost(real_url))

\* C29: when the decode stage gave a well-formed absolute URL with a host,
\* of scheme http or https, the first tier was called on that URL:
\* scrape_full_article does not end without having tried a tier
C29_DecodedUrlReachesFirstTier ==
    (/\ spc = "returned"
     /\ UrlValid(article_url, TRUE)
     /\ real_url.scheme \in {"http", "https"}
     /\ UrlValid(real_url, FALSE)) =>
        /\ Len(trail) >= 1
        /\ trail[1].tier = 1
        /\ trail[1].url = real_url

--------------------------------------------------------------------------
(* Properties of collect_full_articles (SpecBatch) *)

\* the serial numbers of a list of articles, in order
Serials(list) == [i \in DOMAIN list |-> list[i].serial_number]

\* C18: no failure or exception in one acquisition stops the batch: the
\* loop attempts each of the first FULL_ARTICLES_COUNT articles in order,
\* successful_scrapes + failed_scrapes is the number attempted, and the
\* whole list given is returned in its order
C18_BatchNeverStops ==
    /\ bpc # "raised"
    /\ successful_scrapes + failed_scrapes = Len(attempted)
    /\ attempted = SubSeq(Serials(TopArticles(given)), 1, Len(attempted))
    /\ bpc = "returned" =>
          /\ Serials(bReturned) = Serials(given)
          /\ (query_valid /\ SCRAPE_FULL_ARTICLES) =>
                attempted = Serials(TopArticles(given))

\* a batch of more articles than FULL_ARTICLES_COUNT, every acquisition of
\* which ended in an exception, has returned
C18_Witness ==
    /\ bpc = "returned"
    /\ Len(given) > FULL_ARTICLES_COUNT
    /\ failed_scrapes = FULL_ARTICLES_COUNT
    /\ Len(attempted) = FULL_ARTICLES_COUNT

\* the attempted articles that have a link and for which
\* scrape_full_article gives a record
Acquirable ==
    {i \in DOMAIN acquirable :
        articles[i].link # NotApplicable /\ acquirable[i].value # None}

\* C30: every attempted article whose URL can be decoded and whose page
\* can be extracted ends with its full content and is counted in
\* successful_scrapes
C30_AcquirableArticlesSucceed ==
    /\ \A i \in Acquirable : articles[i].full
    /\ bpc = "returned" => successful_scrapes = Cardinality(Acquirable)

--------------------------------------------------------------------------
(* Properties of the shared breaker (SpecConc) *)

\* every caller has made one call, whose operation was invoked and
\* raised, and all the calls are over
EachCallerFailedOnce ==
    \A t \in Callers : tpc[t] = "idle" /\ calls[t] = 1 /\ failed[t] = 1

\* C19: when each of the N callers of a fresh breaker has made one call
\* whose operation failed, failure_count is N and the state is OPEN exactly
\* when N >= failure_threshold, whatever the interleaving
C19_FailuresLinearizable ==
    EachCallerFailedOnce =>
        /\ shared.failure_count = MaxCallers
        /\ shared.state = "OPEN" <=> MaxCallers >= shared.failure_threshold

\* the threads whose operation is running after an admission in HALF_OPEN
TrialsRunning ==
    {t \in Callers : tpc[t] = "running" /\ admitted[t] \in {"TRIAL", "HALF_OPEN"}}

\* C20: while the operation of the trial call of a HALF_OPEN breaker is
\* running, no other caller's operation is invoked
C20_OneTrialCall ==
    Cardinality(TrialsRunning) <= 1

\* the four transitions of the breaker's state
ListedTransitions ==
    {<<"CLOSED", "OPEN">>, <<"OPEN", "HALF_OPEN">>,
     <<"HALF_OPEN", "CLOSED">>, <<"HALF_OPEN", "OPEN">>}

\* C22: whatever the interleaving of the callers, every change of the
\* breaker's state is one of the four listed transitions (never OPEN to
\* CLOSED), and failure_count is not reset while the state is OPEN
C22_OnlyListedTransitions ==
    [][/\ shared'.state # shared.state =>
             <<shared.state, shared'.state>> \in ListedTransitions
       /\ (shared.state = "OPEN" /\ shared.failure_count > 0) =>
             shared'.failure_count > 0]_vars

--------------------------------------------------------------------------
(* Properties of resolve_google_news_url (SpecResolve) *)

\* C21: whatever the server answers, the loop takes at most max_redirects
\* Location headers, and what is returned after the loop is the last
\* location reached
C21_RedirectFollowBounded ==
    /\ followed <= max_redirects
    /\ (vpc = "returned" /\ current_url # None) => vResult = current_url

--------------------------------------------------------------------------
(* Properties of the wrapper with a circuit_breaker (SpecRetryGuarded) *)

\* C27: with a circuit_breaker, an operation that raises a retryable error
\* k <= max_retries times and then returns makes the first call of the
\* wrapper return its result after k + 1 invocations, as without one
C27_RetriesInsideBreaker ==
    (/\ script.fails <= policy.max_retries /\ script.then = "returns"
     /\ nCalls = 1 /\ rpc \in {"returned", "raised"}) =>
        /\ rpc = "returned"
        /\ rResult = OpValue
        /\ invocations = script.fails + 1

--------------------------------------------------------------------------
(* Properties of resolve_google_news_url_with_selenium (SpecSelenium) *)

\* C25: after failure_threshold consecutive failures of the browser
\* automation, selenium_circuit_breaker is OPEN, and a call made while it
\* is OPEN within recovery_timeout returns the URL given without launching
\* the browser
C25_SeleniumBreakerOpens ==
    /\ sFailures >= selenium_circuit_breaker.failure_threshold =>
          selenium_circuit_breaker.state = "OPEN"
    /\ (/\ sCalls > 0
        /\ selenium_circuit_breaker.state = "OPEN"
        /\ ~RecoveryElapsed(selenium_circuit_breaker, now)
        /\ sFailures > selenium_circuit_breaker.failure_threshold) =>
          (~sLaunched /\ sReturned = sArgument)

--------------------------------------------------------------------------
(* Properties of one tier call and its fetches (SpecFetch) *)

\* C26: in one readability or simplified tier call against a URL whose
\* fetch raises a retryable error every time, requests.get is called at
\* most max_retries + 1 times, and when the tier has given up the breaker
\* has counted one failure
C26_FetchesBoundedPerTierCall ==
    fetch_fails = MaxFetchFails =>
        /\ request_count <= retry_for_network.max_retries + 1
        /\ fpc = "gave_up" => scraper_cb.failure_count = 1

==========================================================================
